---- MODULE Spec2Model ----
(***************************************************************************)
(* A state-machine model of the Didit verification backend:                *)
(*   backend/controllers/verificationController.js  (verification routes)  *)
(*   controllers/diditAuthController.js             (legacy routes)         *)
(* The user store (Prisma), the correlation cache (Redis), the clock and    *)
(* the provider are the environment; every handler is an action.  The       *)
(* session-creation handlers are split at their awaits (findUnique, create, *)
(* provider call), so that two requests for one user can overlap; the other *)
(* handlers act in one step.                                                *)
(***************************************************************************)
EXTENDS Integers, Sequences, FiniteSets, TLC

VARIABLES
  users,        \* user store: id -> None | Some(row)
  cache,        \* correlation cache: session id -> None | Some(entry)
  now,          \* the clock read by new Date()
  secret,       \* DIDIT_WEBHOOK_SECRET of the process: a key, or Missing
  inflight,     \* session-creation requests between two awaits
  last,         \* the last completed request and its response
  accepted,     \* per user: session creations answered 201 so far
  everVerified, \* per user: some webhook has written kycStatus = VERIFIED
  nWebhooks,    \* signed webhooks processed so far
  nDocs,        \* document verifications processed so far
  hits,         \* per rate limiter and client IP: requests counted in the window
  reached,      \* per rate limiter and client IP: requests let through in the window
  phoneCache,   \* the entries didit:phone:<request_id>
  ui            \* the React state of the bundled client, and its request in flight

\* the state of the route layer, of the phone flow and of the client
front == <<hits, reached, phoneCache, ui>>

vars == <<users, cache, now, secret, inflight, last, accepted, everVerified,
          nWebhooks, nDocs, hits, reached, phoneCache, ui>>

(***************************************************************************)
(* Bounds of the model                                                     *)
(***************************************************************************)
MaxClock == 2
MaxInFlight == 2
MaxWebhooks == 1
MaxDocs == 1
\* requests of the first client counted by a rate limiter beyond its max
MaxOver == 2
\* requests of every other client counted by a rate limiter
MaxOtherHits == 1

(***************************************************************************)
(* Program constants                                                       *)
(***************************************************************************)
MAX_VERIFICATION_RETRIES == 2
MAX_RETRIES == 2
sessionLimiterMax == 5
phoneLimiterMax == 3
idVerificationLimiterMax == 3

(***************************************************************************)
(* Values                                                                  *)
(***************************************************************************)
None == <<>>
Some(v) == <<v>>

\* undefined / absent field of a request, unset environment variable
Missing == "undefined"

\* ids that pass isUUID(4); only SessionUserIds ask for sessions
UserIds == {"u1", "u2"}
SessionUserIds == {"u1"}
\* session ids: the provider hands out NewSessionIds; callbacks may name any
SessionIds == {"s1", "s2"}
NewSessionIds == {"s1"}
Slots == 1..MaxInFlight

PhoneLong == <<"+", "1", "5", "5", "5", "1", "2", "3", "4", "5", "6", "7">>
PhoneBad == <<"a", "b", "c">>

\* isMobilePhone()
IsMobilePhone(v) == v = PhoneLong

\* isUUID(4)
IsUUID(v) == v \in UserIds

Email(u) == <<u, "@example.com">>

\* a row as prisma.user.create leaves it: the column defaults of the schema
NewUser(u) ==
  [ email                   |-> Email(u),
    kycStatus               |-> "PENDING",
    kycProvider             |-> None,
    kycCompletedAt          |-> None,
    kycDetails              |-> None,
    tradingEnabled          |-> FALSE,
    verificationRetries     |-> 0,
    lastVerificationAttempt |-> None,
    idVerified              |-> FALSE,
    phoneVerified           |-> FALSE,
    phoneNumber             |-> None ]

HasRow(us, id) == id \in DOMAIN us /\ us[id] # None

\* prisma.user.update({where: {id}, data}): the named columns are overwritten,
\* the others kept; the caller checks HasRow (the update throws without a row)
PrismaUpdate(us, id, data) ==
  [us EXCEPT ![id] =
     Some([f \in DOMAIN us[id][1] |->
             IF f \in DOMAIN data THEN data[f] ELSE us[id][1][f]])]

\* JSON.stringify: the canonical text of a value.  A request body is a text
\* with a layout, canonical ("json") or not (for example with whitespace
\* between the tokens); express.json() parses it to its value
Stringify(v) == <<"json", v>>
Spaced(v) == <<"json-spaced", v>>
JsonParse(text) == text[2]


(***************************************************************************)
(* Provider error mapping                                                  *)
(***************************************************************************)
\* what a failed provider call yields: the upstream HTTP status, or 0 for a
\* network failure or a timeout (an axios error without error.response)
ProviderErrors == {401, 403, 400, 429, 404, 500, 0}

\* a provider call answers 2xx (written 201 here) or fails
ProviderOutcomes == {201} \cup ProviderErrors

\* handleDiditApiError: the local HTTP status for error.response?.status
handleDiditApiError(upstream) ==
  IF upstream = 401 THEN 500
  ELSE IF upstream = 403 THEN 500
  ELSE IF upstream = 400 THEN 400
  ELSE IF upstream = 429 THEN 429
  ELSE IF upstream = 404 THEN 404
  ELSE 502

\* the catch block of initiateDiditVerification
legacyApiError(upstream) ==
  IF upstream = 401 THEN 500
  ELSE IF upstream = 403 THEN 500
  ELSE IF upstream = 400 THEN 400
  ELSE 502

(***************************************************************************)
(* Session creation: createVerificationSession and the legacy              *)
(* initiateDiditVerification                                               *)
(***************************************************************************)
SessionHandlers == {"createVerificationSession", "initiateDiditVerification"}

Idle == [pc |-> "idle"]

\* (mutant for C5) the retry check written with > instead of >=
C5Mutant_PrecheckNew(user) ==
  IF user.kycStatus = "VERIFIED" THEN "already"
  ELSE IF user.verificationRetries > MAX_VERIFICATION_RETRIES THEN "limit"
  ELSE "proceed"

\* the checks between the user lookup and the provider call
PrecheckNew(user) ==
  IF user.kycStatus = "VERIFIED" THEN "already"
  ELSE IF user.verificationRetries >= MAX_VERIFICATION_RETRIES THEN "limit"
  ELSE "proceed"

PrecheckLegacy(user) ==
  IF user.verificationRetries >= MAX_RETRIES THEN "limit"
  ELSE IF user.kycStatus = "VERIFIED" THEN "already"
  ELSE "proceed"

Precheck(h, user) ==
  IF h = "createVerificationSession" THEN PrecheckNew(user) ELSE PrecheckLegacy(user)

MaxOf(h) ==
  IF h = "createVerificationSession" THEN MAX_VERIFICATION_RETRIES ELSE MAX_RETRIES

ApiError(h, upstream) ==
  IF h = "createVerificationSession" THEN handleDiditApiError(upstream)
  ELSE legacyApiError(upstream)

LimitError == "Maximum verification attempts exceeded"

\* (mutant for C22) retriesRemaining computed from the counter as it was read
C22Mutant_SessionResp(h, u, status, error, readRetries) ==
  [ handler          |-> h,
    status           |-> status,
    userId           |-> u,
    error            |-> error,
    retriesUsed      |-> IF status = 201 THEN readRetries + 1
                         ELSE IF error = LimitError THEN readRetries ELSE 0,
    retriesRemaining |-> IF status = 201 THEN MaxOf(h) - readRetries ELSE 0 ]

\* a completed session-creation request: the handler, the HTTP status, the
\* user, the error of the 429 body of the retry check ("upstream" for the
\* catch block, else "none"), and retriesUsed and retriesRemaining of the 201
\* body (retriesUsed of the 429 body of the retry check; 0 elsewhere)
SessionResp(h, u, status, error, readRetries) ==
  [ handler          |-> h,
    status           |-> status,
    userId           |-> u,
    error            |-> error,
    retriesUsed      |-> IF status = 201 THEN readRetries + 1
                         ELSE IF error = LimitError THEN readRetries ELSE 0,
    retriesRemaining |-> IF status = 201 THEN MaxOf(h) - (readRetries + 1) ELSE 0 ]

\* the response of the checks, when they answer
PrecheckResp(h, u, user) ==
  IF Precheck(h, user) = "already"
  THEN SessionResp(h, u, 200, "none", user.verificationRetries)
  ELSE SessionResp(h, u, 429, LimitError, user.verificationRetries)

\* after the row is known: answer 200 or 429 at once, or start the provider call
AfterLookup(s, h, u, user) ==
  IF Precheck(h, user) = "proceed"
  THEN /\ inflight' = [inflight EXCEPT ![s] =
                         [ pc |-> "provider", handler |-> h, userId |-> u,
                           readRetries |-> user.verificationRetries ]]
       /\ UNCHANGED last
  ELSE /\ inflight' = [inflight EXCEPT ![s] = Idle]
       /\ last' = PrecheckResp(h, u, user)

FreeSlot(s) ==
  /\ inflight[s] = Idle
  /\ \A r \in Slots : r < s => inflight[r] # Idle

\* prisma.user.findUnique answers: the row, or none and the create is next
SessionLookup(s, h, u) ==
  IF HasRow(users, u)
  THEN AfterLookup(s, h, u, users[u][1])
  ELSE /\ inflight' = [inflight EXCEPT ![s] =
                         [pc |-> "create", handler |-> h, userId |-> u]]
       /\ UNCHANGED last

\* a request arrives at a handler (the rate limiter, where there is one, lets
\* it through) with a valid user id
SessionBegin ==
  \E h \in SessionHandlers, u \in SessionUserIds, s \in Slots :
    /\ FreeSlot(s)
    /\ SessionLookup(s, h, u)
    /\ UNCHANGED <<users, cache, now, secret, accepted, everVerified,
                   nWebhooks, nDocs, front>>

\* (mutant for C36) a create that finds the row of another request goes on
\* with that row
C36Mutant_SessionCreate ==
  \E s \in Slots :
    /\ inflight[s].pc = "create"
    /\ LET h == inflight[s].handler
           u == inflight[s].userId
       IN IF HasRow(users, u)
          THEN /\ AfterLookup(s, h, u, users[u][1])
               /\ UNCHANGED users
          ELSE /\ users' = [users EXCEPT ![u] = Some(NewUser(u))]
               /\ AfterLookup(s, h, u, NewUser(u))
    /\ UNCHANGED <<cache, now, secret, accepted, everVerified, nWebhooks, nDocs, front>>

\* prisma.user.create for a user findUnique did not find: the primary key
\* rejects a second row, and the error goes to the handler's catch block
SessionCreate ==
  \E s \in Slots :
    /\ inflight[s].pc = "create"
    /\ LET h == inflight[s].handler
           u == inflight[s].userId
       IN IF HasRow(users, u)
          THEN /\ inflight' = [inflight EXCEPT ![s] = Idle]
               /\ last' = SessionResp(h, u, ApiError(h, 0), "upstream", 0)
               /\ UNCHANGED users
          ELSE /\ users' = [users EXCEPT ![u] = Some(NewUser(u))]
               /\ AfterLookup(s, h, u, NewUser(u))
    /\ UNCHANGED <<cache, now, secret, accepted, everVerified, nWebhooks, nDocs, front>>

\* (mutant for C37) the row written back whole, as it was when the request
\* read it before any verification result
C37Mutant_SessionWrite(us, u, readRetries, t) ==
  PrismaUpdate(us, u, [ kycStatus               |-> "PENDING",
                        kycCompletedAt          |-> None,
                        kycDetails              |-> None,
                        idVerified              |-> FALSE,
                        phoneVerified           |-> FALSE,
                        phoneNumber             |-> None,
                        tradingEnabled          |-> FALSE,
                        verificationRetries     |-> readRetries + 1,
                        lastVerificationAttempt |-> Some(t) ])

\* the row write of an accepted request: the counter becomes the value read
\* at lookup plus one
SessionWrite(us, u, readRetries, t) ==
  PrismaUpdate(us, u, [ verificationRetries     |-> readRetries + 1,
                        lastVerificationAttempt |-> Some(t) ])

\* redis.set inside its own try/catch
CacheSet(ca, sid, u, redisOK) ==
  IF redisOK THEN [ca EXCEPT ![sid] = Some(Stringify([userId |-> u]))] ELSE ca

\* (mutant for C27) the retry check made again, on the stored counter, at the
\* time of the write
C27Mutant_SessionProviderResult(us, ca, t, r, outcome, sid, dbOK, redisOK) ==
  IF outcome # 201 \/ ~dbOK
  THEN [ resp     |-> SessionResp(r.handler, r.userId,
                                  ApiError(r.handler, IF outcome # 201 THEN outcome ELSE 0),
                                  "upstream", r.readRetries),
         users    |-> us,
         cache    |-> ca,
         accepted |-> FALSE ]
  ELSE IF us[r.userId][1].verificationRetries >= MaxOf(r.handler)
  THEN [ resp     |-> SessionResp(r.handler, r.userId, 429, LimitError,
                                  us[r.userId][1].verificationRetries),
         users    |-> us,
         cache    |-> ca,
         accepted |-> FALSE ]
  ELSE [ resp     |-> SessionResp(r.handler, r.userId, 201, "none", r.readRetries),
         users    |-> SessionWrite(us, r.userId, r.readRetries, t),
         cache    |-> CacheSet(ca, sid, r.userId, redisOK),
         accepted |-> TRUE ]

\* (mutant for C17) the counter written before the provider call is awaited
C17Mutant_SessionProviderResult(us, ca, t, r, outcome, sid, dbOK, redisOK) ==
  IF outcome # 201 \/ ~dbOK
  THEN [ resp     |-> SessionResp(r.handler, r.userId,
                                  ApiError(r.handler, IF outcome # 201 THEN outcome ELSE 0),
                                  "upstream", r.readRetries),
         users    |-> IF dbOK THEN SessionWrite(us, r.userId, r.readRetries, t) ELSE us,
         cache    |-> ca,
         accepted |-> FALSE ]
  ELSE [ resp     |-> SessionResp(r.handler, r.userId, 201, "none", r.readRetries),
         users    |-> SessionWrite(us, r.userId, r.readRetries, t),
         cache    |-> CacheSet(ca, sid, r.userId, redisOK),
         accepted |-> TRUE ]

\* the rest of the handler once the provider call of request r has ended with
\* outcome (session id sid on success): a failed call or a failed row write
\* goes to the catch block; else the counter is written, the session is cached
\* (best effort) and 201 is returned
SessionProviderResult(us, ca, t, r, outcome, sid, dbOK, redisOK) ==
  IF outcome # 201 \/ ~dbOK
  THEN [ resp     |-> SessionResp(r.handler, r.userId,
                                  ApiError(r.handler, IF outcome # 201 THEN outcome ELSE 0),
                                  "upstream", r.readRetries),
         users    |-> us,
         cache    |-> ca,
         accepted |-> FALSE ]
  ELSE [ resp     |-> SessionResp(r.handler, r.userId, 201, "none", r.readRetries),
         users    |-> SessionWrite(us, r.userId, r.readRetries, t),
         cache    |-> CacheSet(ca, sid, r.userId, redisOK),
         accepted |-> TRUE ]

\* the provider answers
SessionProvider ==
  \E s \in Slots :
    /\ inflight[s].pc = "provider"
    /\ \E outcome \in ProviderOutcomes, sid \in NewSessionIds :
       \E dbOK \in (IF outcome = 201 THEN BOOLEAN ELSE {TRUE}) :
       \E redisOK \in (IF outcome = 201 /\ dbOK THEN BOOLEAN ELSE {TRUE}) :
         LET r == SessionProviderResult(users, cache, now, inflight[s],
                                        outcome, sid, dbOK, redisOK)
         IN /\ inflight' = [inflight EXCEPT ![s] = Idle]
            /\ last' = r.resp
            /\ users' = r.users
            /\ cache' = r.cache
            /\ accepted' = IF r.accepted
                           THEN [accepted EXCEPT ![inflight[s].userId] = @ + 1]
                           ELSE accepted
    /\ UNCHANGED <<now, secret, everVerified, nWebhooks, nDocs, front>>

(***************************************************************************)
(* Webhook payloads and signatures                                         *)
(***************************************************************************)
\* decision objects: no sub-results; both approved, with a phone number;
\* both declined, without a phone number
DecisionEmpty == [id_verification |-> None, phone_verification |-> None]
DecisionFull ==
  [ id_verification    |-> Some([status |-> "Approved"]),
    phone_verification |-> Some([status |-> "Approved", phone_number |-> Some(PhoneLong)]) ]
DecisionDeclined ==
  [ id_verification    |-> Some([status |-> "Declined"]),
    phone_verification |-> Some([status |-> "Declined", phone_number |-> None]) ]

Decisions == {None, Some(DecisionEmpty), Some(DecisionFull), Some(DecisionDeclined)}

\* the verification_data object the legacy handler reads
VerificationFull ==
  [ id_verification    |-> Some([status |-> "verified"]),
    phone_verification |-> Some([status |-> "verified", phone_number |-> Some(PhoneLong)]) ]

ProviderStatuses == {"Approved", "Declined", "In Review", "Abandoned", Missing}
WebhookTypes == {"status.updated", "data.updated", Missing}
VendorData == UserIds \cup {Missing}

Payload(sid, st, vd, ty, dec, ver) ==
  [ session_id |-> sid, status |-> st, vendor_data |-> vd, webhook_type |-> ty,
    decision |-> dec, verification_data |-> ver ]

\* callbacks for session s1 of user u1: every status with every decision as
\* status.updated and as data.updated, and some with another or no type
TypedPayloads ==
  { Payload("s1", st, "u1", ty, dec, None) :
      st \in ProviderStatuses, ty \in {"status.updated", "data.updated"},
      dec \in Decisions }

UntypedPayloads ==
  { Payload("s1", st, "u1", Missing, dec, None) :
      st \in {"Approved", "Abandoned"}, dec \in {None, Some(DecisionFull)} }

\* callbacks whose vendor_data names a user without a row, or nobody
StrangerPayloads ==
  { Payload("s1", st, vd, ty, Some(DecisionFull), None) :
      st \in {"Approved", "Declined"}, vd \in {"u2", Missing},
      ty \in {"status.updated", "data.updated"} }

\* callbacks for another session of user u1
OtherSessionPayloads ==
  { Payload("s2", st, "u1", "status.updated", dec, None) :
      st \in {"Approved", "In Review"}, dec \in {None, Some(DecisionFull)} }

\* payloads in the shape the legacy handler was written for
LegacyPayloads ==
  { Payload(sid, "completed", vd, Missing, None, ver) :
      sid \in {"s1"}, vd \in {"u1", "u2"}, ver \in {None, Some(VerificationFull)} }

Payloads ==
  TypedPayloads \cup UntypedPayloads \cup StrangerPayloads
  \cup OtherSessionPayloads \cup LegacyPayloads

\* what the legacy endpoint receives: the provider's callbacks (it is the
\* registered callback URL) and legacy-shaped payloads
DiditPayloads ==
  LegacyPayloads
  \cup { Payload("s1", st, "u1", "status.updated", Some(DecisionFull), None) :
           st \in {"Approved", "In Review"} }
  \cup { Payload("s2", "Approved", vd, "status.updated", None, None) :
           vd \in {"u1", Missing} }

\* the hex digest of HMAC-SHA256: one digest per key and text, all of one length
Hmac(key, text) == <<"hmac-sha256", key, text>>

\* a request: the raw body and the x-didit-signature header
Request(raw, g) == [raw |-> raw, sig |-> g]

\* req.body, as express.json() leaves it
Body(req) == JsonParse(req.raw)

\* the header of the provider, which holds the key "k1": the digest of the body
GoodSignature(raw) == Some(Hmac("k1", raw))

\* other headers: absent, empty, a truncated digest, the digest under another key
BadSignatures(raw) ==
  {None, Some(<<>>), Some(<<"hmac-sha256", "k1">>), Some(Hmac("k2", raw))}

Signed(p) == Request(Stringify(p), GoodSignature(Stringify(p)))

\* the payloads that would change the most, sent with each of the bad headers,
\* and sent in another layout with the digest of the bytes sent and with the
\* digest of the canonical text
ForgedPayloads ==
  { Payload("s1", "Approved", "u1", "status.updated", Some(DecisionFull), None),
    Payload("s1", "completed", "u1", Missing, None, Some(VerificationFull)) }

ForgedRequests ==
  UNION {{Request(Stringify(p), g) : g \in BadSignatures(Stringify(p))} : p \in ForgedPayloads}

SpacedRequests ==
  UNION {{Request(Spaced(p), GoodSignature(Spaced(p))),
          Request(Spaced(p), GoodSignature(Stringify(p)))} : p \in ForgedPayloads}

WebhookRequests == {Signed(p) : p \in Payloads} \cup ForgedRequests \cup SpacedRequests

DiditRequests == {Signed(p) : p \in DiditPayloads} \cup ForgedRequests \cup SpacedRequests

\* the few requests sent while session creations overlap
ConcRequests ==
  { Signed(Payload("s1", "Approved", "u1", "status.updated", Some(DecisionFull), None)),
    Signed(Payload("s1", "Declined", "u1", "status.updated", None, None)),
    Signed(Payload("s1", "completed", "u1", Missing, None, Some(VerificationFull))) }

\* crypto.timingSafeEqual: throws on buffers of different length
timingSafeEqual(a, b) ==
  IF Len(a) # Len(b) THEN "throw" ELSE IF a = b THEN "true" ELSE "false"

\* (mutant for C1) the catch block of the comparison answering true
C1Mutant_verifyWebhookSignature(rawBody, signature) ==
  IF signature = None \/ signature = Some(<<>>) \/ secret = Missing
  THEN FALSE
  ELSE timingSafeEqual(signature[1], Hmac(secret, rawBody)) # "false"

\* verifyWebhookSignature: a falsy header or secret, or a throw, give false
verifyWebhookSignature(rawBody, signature) ==
  IF signature = None \/ signature = Some(<<>>) \/ secret = Missing
  THEN FALSE
  ELSE timingSafeEqual(signature[1], Hmac(secret, rawBody)) = "true"

\* verifyDiditSignature of the legacy handler: nothing is caught, so a missing
\* secret (createHmac), a missing header (Buffer.from) and a length mismatch throw
verifyDiditSignature(payload, signature) ==
  IF secret = Missing \/ signature = None
  THEN "throw"
  ELSE timingSafeEqual(signature[1], Hmac(secret, Stringify(payload)))

(***************************************************************************)
(* handleWebhook                                                           *)
(***************************************************************************)
\* faults of one request: which user-store write throws (the first, or the one
\* of the trading flag), and whether the cache answers
WebhookFaults ==
  { [db |-> "none", redisOK |-> TRUE], [db |-> "first", redisOK |-> TRUE],
    [db |-> "trading", redisOK |-> TRUE], [db |-> "none", redisOK |-> FALSE] }

NoFault == [db |-> "none", redisOK |-> TRUE]

\* (mutant for C3) Abandoned treated as a failed verification
C3Mutant_StatusMapping(status, t) ==
  IF status = "Approved"
  THEN [kycStatus |-> "VERIFIED", kycCompletedAt |-> Some(t)]
  ELSE IF status \in {"Declined", "Abandoned"} THEN [kycStatus |-> "FAILED"]
  ELSE IF status = "In Review" THEN [kycStatus |-> "PENDING"]
  ELSE <<>>

\* (mutant for C34) the completion time left out of the Approved mapping
C34Mutant_StatusMapping(status, t) ==
  IF status = "Approved" THEN [kycStatus |-> "VERIFIED"]
  ELSE IF status = "Declined" THEN [kycStatus |-> "FAILED"]
  ELSE IF status = "In Review" THEN [kycStatus |-> "PENDING"]
  ELSE <<>>

\* updateData of handleStatusUpdate
StatusMapping(status, t) ==
  IF status = "Approved"
  THEN [kycStatus |-> "VERIFIED", kycCompletedAt |-> Some(t)]
  ELSE IF status = "Declined" THEN [kycStatus |-> "FAILED"]
  ELSE IF status = "In Review" THEN [kycStatus |-> "PENDING"]
  ELSE <<>>

\* (mutant for C31) the flags only ever raised: a sub-result that is not
\* Approved writes nothing
C31Mutant_DecisionDetails(decision) ==
  IF decision = None THEN <<>>
  ELSE LET d == decision[1] IN
       (IF d.id_verification # None /\ d.id_verification[1].status = "Approved"
        THEN [idVerified |-> TRUE]
        ELSE <<>>)
       @@
       (IF d.phone_verification # None
        THEN (IF d.phone_verification[1].status = "Approved"
              THEN [phoneVerified |-> TRUE] ELSE <<>>)
             @@ (IF d.phone_verification[1].phone_number # None
                 THEN [phoneNumber |-> d.phone_verification[1].phone_number]
                 ELSE <<>>)
        ELSE <<>>)
       @@ [kycDetails |-> Some(Stringify(d))]

DecisionDetails(decision) ==
  IF decision = None THEN <<>>
  ELSE LET d == decision[1] IN
       (IF d.id_verification # None
        THEN [idVerified |-> d.id_verification[1].status = "Approved"]
        ELSE <<>>)
       @@
       (IF d.phone_verification # None
        THEN [phoneVerified |-> d.phone_verification[1].status = "Approved"]
             @@ (IF d.phone_verification[1].phone_number # None
                 THEN [phoneNumber |-> d.phone_verification[1].phone_number]
                 ELSE <<>>)
        ELSE <<>>)
       @@ [kycDetails |-> Some(Stringify(d))]

\* (mutant for C9) a declined verification revoking the trading flag
C9Mutant_StatusUpdateData(status, decision, t) ==
  (IF status = "Declined" THEN [tradingEnabled |-> FALSE] ELSE <<>>)
  @@ [kycProvider |-> Some("DIDIT")] @@ StatusMapping(status, t) @@ DecisionDetails(decision)

StatusUpdateData(status, decision, t) ==
  [kycProvider |-> Some("DIDIT")] @@ StatusMapping(status, t) @@ DecisionDetails(decision)

\* (mutant for C35) an upsert: the write creates the row it does not find
C35Mutant_TryUpdate(us, id, data, fails) ==
  IF fails \/ id \notin DOMAIN us
  THEN [threw |-> TRUE, users |-> us]
  ELSE IF ~HasRow(us, id)
  THEN [threw |-> FALSE,
        users |-> PrismaUpdate([us EXCEPT ![id] = Some(NewUser(id))], id, data)]
  ELSE [threw |-> FALSE, users |-> PrismaUpdate(us, id, data)]

\* a user-store write inside a handler: [threw, users]
TryUpdate(us, id, data, fails) ==
  IF fails \/ ~HasRow(us, id)
  THEN [threw |-> TRUE, users |-> us]
  ELSE [threw |-> FALSE, users |-> PrismaUpdate(us, id, data)]

\* the cache read in its own try/catch: the parsed entry, or nothing when the
\* client throws, no entry is stored, or the stored text does not parse
SessionContext(ca, sid, redisOK) ==
  IF ~redisOK \/ ca[sid] = None THEN None
  ELSE IF ca[sid][1][1] # "json" THEN None
  ELSE Some(JsonParse(ca[sid][1]))

\* (mutant for C14) the user taken from the cached session when there is one
C14Mutant_WebhookUser(p, sessionContext) ==
  IF sessionContext # None THEN sessionContext[1].userId ELSE p.vendor_data

\* const userId = vendor_data: the session context is read and not used
WebhookUser(p, sessionContext) == p.vendor_data

\* the type dispatch: handleStatusUpdate, handleDataUpdate, or nothing
Dispatch(us, t, userId, p, fails) ==
  IF p.webhook_type = "status.updated"
  THEN TryUpdate(us, userId, StatusUpdateData(p.status, p.decision, t), fails)
  ELSE IF p.webhook_type = "data.updated" /\ p.decision # None
  THEN TryUpdate(us, userId, [kycDetails |-> Some(Stringify(p.decision[1]))], fails)
  ELSE [threw |-> FALSE, users |-> us]

TerminalStatuses == {"Approved", "Declined", "Abandoned"}

\* redis.del inside its own try/catch
CacheDel(ca, sid, redisOK) == IF redisOK THEN [ca EXCEPT ![sid] = None] ELSE ca

\* triggerPostVerificationActions: its own try/catch swallows a failed write
triggerPostVerificationActions(us, id, fails) ==
  TryUpdate(us, id, [tradingEnabled |-> TRUE], fails).users

\* (mutant for C2) the catch block answering with an error status
C2Mutant_ProcessingFailed(us, ca) == [status |-> 500, threw |-> TRUE, users |-> us, cache |-> ca]

\* the catch block of the handler: the acknowledgement all the same
ProcessingFailed(us, ca) == [status |-> 200, threw |-> TRUE, users |-> us, cache |-> ca]

\* the whole handler on request req in store us, cache ca at time t:
\* the response status, whether processing threw, and the state it leaves
HandleWebhookResult(us, ca, t, req, f) ==
  LET p == Body(req) IN
  IF ~verifyWebhookSignature(Stringify(p), req.sig)
  THEN [status |-> 401, threw |-> FALSE, users |-> us, cache |-> ca]
  ELSE LET userId == WebhookUser(p, SessionContext(ca, p.session_id, f.redisOK))
           d == Dispatch(us, t, userId, p, f.db = "first")
       IN
       IF d.threw
       THEN ProcessingFailed(us, ca)
       ELSE [ status |-> 200,
              threw  |-> FALSE,
              users  |-> IF p.status = "Approved" /\ p.decision # None
                         THEN triggerPostVerificationActions(d.users, userId,
                                                             f.db = "trading")
                         ELSE d.users,
              cache  |-> IF p.status \in TerminalStatuses
                         THEN CacheDel(ca, p.session_id, f.redisOK)
                         ELSE ca ]

\* some row holds kycStatus = VERIFIED after the step
NoteVerified(us) ==
  [u \in UserIds |-> everVerified[u] \/ (HasRow(us, u) /\ us[u][1].kycStatus = "VERIFIED")]

\* a request is served; faults are drawn only where the handler gets to a write
HandleWebhookOn(reqs) ==
  \E req \in reqs :
    /\ verifyWebhookSignature(Stringify(Body(req)), req.sig) => nWebhooks < MaxWebhooks
    /\ \E f \in (IF verifyWebhookSignature(Stringify(Body(req)), req.sig)
                 THEN WebhookFaults ELSE {NoFault}) :
       LET r == HandleWebhookResult(users, cache, now, req, f) IN
       /\ users' = r.users
       /\ cache' = r.cache
       /\ last' = [handler |-> "handleWebhook", status |-> r.status]
       /\ nWebhooks' = IF r.status = 200 THEN nWebhooks + 1 ELSE nWebhooks
       /\ everVerified' = NoteVerified(r.users)
       /\ UNCHANGED <<now, secret, inflight, accepted, nDocs, front>>

HandleWebhook == HandleWebhookOn(WebhookRequests)

HandleWebhookConc == HandleWebhookOn(ConcRequests)

(***************************************************************************)
(* diditWebhookHandler, the legacy webhook endpoint                        *)
(***************************************************************************)
\* the data of updateUserVerificationStatus
LegacyUpdateData(status, details, t) ==
  LET vd    == details.verification_data
      idv   == IF vd # None THEN vd[1].id_verification ELSE None
      phv   == IF vd # None THEN vd[1].phone_verification ELSE None
  IN [ kycStatus      |-> IF status = "completed" THEN "VERIFIED" ELSE "FAILED",
       kycProvider    |-> Some("DIDIT"),
       kycCompletedAt |-> IF status = "completed" THEN Some(t) ELSE None,
       kycDetails     |-> Some(Stringify(details)),
       idVerified     |-> idv # None /\ idv[1].status = "verified",
       phoneVerified  |-> phv # None /\ phv[1].status = "verified",
       phoneNumber    |-> IF phv # None THEN phv[1].phone_number ELSE None ]

\* const userId = vendor_data: only the correlation id is read from the cache
DiditUser(p, sessionContext) == p.vendor_data

\* the whole handler; status 0 stands for the handler throwing before any
\* response (verifyDiditSignature threw)
DiditWebhookResult(us, ca, t, req, f) ==
  LET p == Body(req)
      v == verifyDiditSignature(p, req.sig)
  IN
  IF v = "throw" THEN [status |-> 0, threw |-> TRUE, users |-> us, cache |-> ca]
  ELSE IF v = "false" THEN [status |-> 401, threw |-> FALSE, users |-> us, cache |-> ca]
  ELSE LET userId == DiditUser(p, SessionContext(ca, p.session_id, f.redisOK))
           d  == TryUpdate(us, userId, LegacyUpdateData(p.status, p, t),
                           f.db = "first")
           c  == CacheDel(ca, p.session_id, f.redisOK)
           tr == TryUpdate(d.users, userId, [tradingEnabled |-> TRUE],
                           f.db = "trading")
       IN IF d.threw
          THEN [status |-> 200, threw |-> TRUE, users |-> us, cache |-> ca]
          ELSE IF p.status = "completed"
          THEN [status |-> 200, threw |-> tr.threw, users |-> tr.users, cache |-> c]
          ELSE [status |-> 200, threw |-> FALSE, users |-> d.users, cache |-> c]

\* what the client of a handler that threw gets: no response at all (0, the
\* rejected promise of the async handler is not handled) or the 500 of the
\* error middleware, depending on the Express version
CrashResponses == {0, 500}

DiditWebhookOn(reqs) ==
  \E req \in reqs :
    /\ verifyDiditSignature(Body(req), req.sig) = "true" => nWebhooks < MaxWebhooks
    /\ \E f \in (IF verifyDiditSignature(Body(req), req.sig) = "true"
                 THEN WebhookFaults ELSE {NoFault}) :
       LET r == DiditWebhookResult(users, cache, now, req, f) IN
       /\ users' = r.users
       /\ cache' = r.cache
       /\ \E st \in (IF r.status = 0 THEN CrashResponses ELSE {r.status}) :
            last' = [handler |-> "diditWebhookHandler", status |-> st]
       /\ nWebhooks' = IF r.status = 200 THEN nWebhooks + 1 ELSE nWebhooks
       /\ everVerified' = NoteVerified(r.users)
       /\ UNCHANGED <<now, secret, inflight, accepted, nDocs, front>>

DiditWebhook == DiditWebhookOn(DiditRequests)

DiditWebhookConc == DiditWebhookOn(ConcRequests)

(***************************************************************************)
(* The webhook routes and the callback URL given to the provider           *)
(***************************************************************************)
\* the path of the callback field of the session-creation payload
CALLBACK_URL == "/api/v1/didit/webhook"

WebhookPaths == {"/api/v1/verification/webhook", "/api/v1/didit/webhook"}

\* router.post('/webhook', handleWebhook) under /api/v1/verification, and
\* app.post('/api/v1/didit/webhook', diditWebhookHandler)
RouteOf(path) ==
  IF path = "/api/v1/verification/webhook" THEN "handleWebhook"
  ELSE "diditWebhookHandler"

\* a webhook request delivered to a path: the result of the handler serving it
DeliverWebhook(path, us, ca, t, req, f) ==
  IF RouteOf(path) = "handleWebhook"
  THEN HandleWebhookResult(us, ca, t, req, f)
  ELSE DiditWebhookResult(us, ca, t, req, f)

(***************************************************************************)
(* verifyIdDocument                                                        *)
(***************************************************************************)
DocumentStatuses == {"verified", "Approved", "Declined"}

\* (mutant for C25) a declined document clearing the flag
C25Mutant_VerifyIdDocumentResult(us, u, outcome, st, dbOK) ==
  IF outcome # 201
  THEN [status |-> handleDiditApiError(outcome), users |-> us]
  ELSE LET w == TryUpdate(us, u, [ idVerified |-> st \in {"verified", "Approved"},
                                   kycDetails |-> Some(Stringify([status |-> st])) ],
                          ~dbOK)
       IN [ status |-> IF w.threw THEN handleDiditApiError(0) ELSE 200,
            users  |-> w.users ]

\* the handler for user u, when the provider call ends with outcome, its
\* result (on success) has status st, and the row write succeeds or not
VerifyIdDocumentResult(us, u, outcome, st, dbOK) ==
  IF outcome # 201
  THEN [status |-> handleDiditApiError(outcome), users |-> us]
  ELSE IF st \in {"verified", "Approved"}
  THEN LET w == TryUpdate(us, u, [ idVerified |-> TRUE,
                                   kycDetails |-> Some(Stringify([status |-> st])) ],
                          ~dbOK)
       IN [ status |-> IF w.threw THEN handleDiditApiError(0) ELSE 200,
            users  |-> w.users ]
  ELSE [status |-> 200, users |-> us]

\* req.body as far as the validators read it
IdBodies ==
  [ userId       : UserIds \cup {"not-a-uuid"},
    frontImage   : {"base64", "not-base64"},
    backImage    : {Missing, "not-base64"},
    documentType : {Missing, "passport", "selfie"} ]

\* isBase64()
IsBase64(v) == v = "base64"

\* the validators of verifyIdDocument
IdValid(body) ==
  /\ IsUUID(body.userId)
  /\ IsBase64(body.frontImage)
  /\ body.backImage # Missing => IsBase64(body.backImage)
  /\ body.documentType # Missing =>
       body.documentType \in {"passport", "id_card", "driver_license"}

\* the validation, then the handler: the status, the user store it leaves,
\* and whether the provider was called
VerifyIdDocumentRequest(us, body, outcome, st, dbOK) ==
  IF ~IdValid(body)
  THEN [status |-> 400, users |-> us, called |-> FALSE]
  ELSE LET r == VerifyIdDocumentResult(us, body.userId, outcome, st, dbOK)
       IN [status |-> r.status, users |-> r.users, called |-> TRUE]

VerifyIdDocument ==
  \E body \in IdBodies :
  \E outcome \in (IF IdValid(body) THEN ProviderOutcomes ELSE {201}) :
  \E st \in (IF outcome = 201 /\ IdValid(body) THEN DocumentStatuses ELSE {Missing}) :
  \E dbOK \in (IF outcome = 201 /\ IdValid(body) THEN BOOLEAN ELSE {TRUE}) :
    LET r == VerifyIdDocumentRequest(users, body, outcome, st, dbOK) IN
    /\ nDocs < MaxDocs
    /\ nDocs' = nDocs + 1
    /\ users' = r.users
    /\ last' = [handler |-> "verifyIdDocument", status |-> r.status]
    /\ UNCHANGED <<cache, now, secret, inflight, accepted, everVerified, nWebhooks, front>>

(***************************************************************************)
(* The rate limiters of the verification routes                            *)
(***************************************************************************)
\* client addresses (req.ip, the key of the limiters)
IPs == {"ip1", "ip2"}

Limiters == {"sessionLimiter", "phoneLimiter", "idVerificationLimiter"}

\* the max option of each limiter
LimiterMax(l) ==
  IF l = "sessionLimiter" THEN sessionLimiterMax
  ELSE IF l = "phoneLimiter" THEN phoneLimiterMax
  ELSE idVerificationLimiterMax

\* (mutant for C20) the limiter letting one more request through
C20Mutant_RateLimited(l, totalHits) == totalHits > LimiterMax(l) + 1

\* rateLimit({windowMs, max}): the request is counted, and refused when the
\* count of the window exceeds max
RateLimited(l, totalHits) == totalHits > LimiterMax(l)

\* how many requests of ip the limiter l gets in one window
HitBound(l, ip) == IF ip = "ip1" THEN LimiterMax(l) + MaxOver ELSE MaxOtherHits

\* the limiter counts one more request of ip
Counted(l, ip) == [hits EXCEPT ![l][ip] = @ + 1]

\* the request is handed to the next middleware of the route
LetThrough(l, ip) == [reached EXCEPT ![l][ip] = @ + 1]

\* the 429 of a limiter; userId is what the refused body carried
Refused(l, userId) == [handler |-> l, status |-> 429, userId |-> userId]

\* the window of one key ends: its count starts again at 0
WindowReset ==
  \E l \in Limiters, ip \in IPs :
    /\ hits[l][ip] > 0
    /\ hits' = [hits EXCEPT ![l][ip] = 0]
    /\ reached' = [reached EXCEPT ![l][ip] = 0]
    /\ UNCHANGED <<users, cache, now, secret, inflight, last, accepted,
                   everVerified, nWebhooks, nDocs, phoneCache, ui>>

(***************************************************************************)
(* POST /session/create: sessionLimiter, then createVerificationSession    *)
(***************************************************************************)
\* req.body as far as the validators read it: userId and contactDetails.phone
SessionBodies ==
  [ userId       : SessionUserIds \cup {"not-a-uuid", Missing},
    contactPhone : {None, Some(PhoneLong), Some(PhoneBad)} ]

\* the validators of createVerificationSession
SessionValid(body) ==
  /\ IsUUID(body.userId)
  /\ body.contactPhone # None => IsMobilePhone(body.contactPhone[1])

\* the request of ip with body: the limiter, then the validation, then the
\* lookup of the user
PostSessionCreateOn(ip, body, s) ==
  /\ FreeSlot(s)
  /\ hits["sessionLimiter"][ip] < HitBound("sessionLimiter", ip)
  /\ hits' = Counted("sessionLimiter", ip)
  /\ IF RateLimited("sessionLimiter", hits["sessionLimiter"][ip] + 1)
     THEN /\ last' = Refused("sessionLimiter", body.userId)
          /\ UNCHANGED <<inflight, reached>>
     ELSE /\ reached' = LetThrough("sessionLimiter", ip)
          /\ IF ~SessionValid(body)
             THEN /\ last' = SessionResp("createVerificationSession", body.userId,
                                         400, "validation", 0)
                  /\ UNCHANGED inflight
             ELSE SessionLookup(s, "createVerificationSession", body.userId)
  /\ UNCHANGED <<users, cache, now, secret, accepted, everVerified,
                 nWebhooks, nDocs, phoneCache, ui>>

PostSessionCreate ==
  \E ip \in IPs, body \in SessionBodies, s \in Slots : PostSessionCreateOn(ip, body, s)

(***************************************************************************)
(* POST /phone/send: phoneLimiter, then sendPhoneVerificationCode          *)
(***************************************************************************)
\* the request ids the provider hands out
RequestIds == {"r1"}

SendPhoneBodies ==
  [ phone_number : {None, Some(PhoneLong), Some(PhoneBad)},
    phoneNumber  : {None, Some(PhoneLong)},
    userId       : {Missing, "not-a-uuid"} ]

\* the validators of the route: each field is optional
SendPhoneValid(body) ==
  /\ body.phone_number # None => IsMobilePhone(body.phone_number[1])
  /\ body.phoneNumber # None => IsMobilePhone(body.phoneNumber[1])
  /\ body.userId # Missing => IsUUID(body.userId)

\* req.body.phone_number || req.body.phoneNumber
IncomingNumber(body) ==
  IF body.phone_number # None THEN body.phone_number ELSE body.phoneNumber

\* response.data of a successful provider call
SendPhoneData(rid, number) ==
  [request_id |-> rid, phone_number |-> number, message |-> "Code sent"]

\* (mutant for C16) a failed cache write ending in the catch block
C16Mutant_SendPhoneResult(pca, body, outcome, rid, redisOK) ==
  IF ~SendPhoneValid(body) \/ IncomingNumber(body) = None
  THEN [status |-> 400, data |-> None, phoneCache |-> pca, called |-> FALSE]
  ELSE IF outcome # 201 \/ ~redisOK
  THEN [status |-> handleDiditApiError(IF outcome # 201 THEN outcome ELSE 0),
        data |-> None, phoneCache |-> pca, called |-> TRUE]
  ELSE [ status     |-> 200,
         called     |-> TRUE,
         data       |-> Some(SendPhoneData(rid, IncomingNumber(body)[1])),
         phoneCache |-> [pca EXCEPT ![rid] =
                           Some(Stringify([ userId      |-> body.userId,
                                            phoneNumber |-> IncomingNumber(body)[1] ]))] ]

\* the handler on body, when the provider call ends with outcome (request id
\* rid on success) and the cache client answers or throws: the status, the
\* provider data of the 200 body, and the phone entries it leaves
SendPhoneResult(pca, body, outcome, rid, redisOK) ==
  IF ~SendPhoneValid(body) \/ IncomingNumber(body) = None
  THEN [status |-> 400, data |-> None, phoneCache |-> pca, called |-> FALSE]
  ELSE IF outcome # 201
  THEN [status |-> handleDiditApiError(outcome), data |-> None, phoneCache |-> pca,
        called |-> TRUE]
  ELSE [ status     |-> 200,
         called     |-> TRUE,
         data       |-> Some(SendPhoneData(rid, IncomingNumber(body)[1])),
         phoneCache |-> IF redisOK
                        THEN [pca EXCEPT ![rid] =
                                Some(Stringify([ userId      |-> body.userId,
                                                 phoneNumber |-> IncomingNumber(body)[1] ]))]
                        ELSE pca ]

PostPhoneSend ==
  \E ip \in IPs, body \in SendPhoneBodies :
    /\ hits["phoneLimiter"][ip] < HitBound("phoneLimiter", ip)
    /\ hits' = Counted("phoneLimiter", ip)
    /\ IF RateLimited("phoneLimiter", hits["phoneLimiter"][ip] + 1)
       THEN /\ last' = Refused("phoneLimiter", body.userId)
            /\ UNCHANGED <<reached, phoneCache>>
       ELSE \E outcome \in (IF SendPhoneValid(body) /\ IncomingNumber(body) # None
                             THEN ProviderOutcomes ELSE {201}) :
            \E rid \in RequestIds :
            \E redisOK \in (IF outcome = 201 THEN BOOLEAN ELSE {TRUE}) :
              LET r == SendPhoneResult(phoneCache, body, outcome, rid, redisOK) IN
              /\ reached' = LetThrough("phoneLimiter", ip)
              /\ phoneCache' = r.phoneCache
              /\ last' = [handler |-> "sendPhoneVerificationCode", status |-> r.status]
    /\ UNCHANGED <<users, cache, now, secret, inflight, accepted, everVerified,
                   nWebhooks, nDocs, ui>>

\* an entry set with EX: PHONE_CODE_VALIDITY expires
PhoneExpire ==
  \E rid \in RequestIds :
    /\ phoneCache[rid] # None
    /\ phoneCache' = [phoneCache EXCEPT ![rid] = None]
    /\ UNCHANGED <<users, cache, now, secret, inflight, last, accepted,
                   everVerified, nWebhooks, nDocs, hits, reached, ui>>

(***************************************************************************)
(* POST /phone/check: phoneLimiter, then checkPhoneVerificationCode        *)
(***************************************************************************)
CodeGood == <<"1", "2", "3", "4", "5", "6">>
CodeShort == <<"1", "2">>

\* isLength({min: 4, max: 6}); an absent field is validated as ''
IsCode(code) == LET c == IF code = None THEN <<>> ELSE code[1] IN Len(c) \in 4..6

CheckPhoneBodies ==
  [ code         : {None, Some(CodeGood), Some(CodeShort)},
    phone_number : {None, Some(PhoneLong), Some(PhoneBad)} ]

\* the validators of the route
CheckPhoneValid(body) ==
  /\ IsCode(body.code)
  /\ body.phone_number # None => IsMobilePhone(body.phone_number[1])

\* (mutant for C21) the number looked at only after the provider was called
C21Mutant_CheckPhoneResult(body, outcome) ==
  IF ~CheckPhoneValid(body)
  THEN [status |-> 400, called |-> FALSE]
  ELSE IF outcome # 201
  THEN [status |-> handleDiditApiError(outcome), called |-> TRUE]
  ELSE IF body.phone_number = None
  THEN [status |-> 400, called |-> TRUE]
  ELSE [status |-> 200, called |-> TRUE]

\* the handler on body, when the provider call (if it is made) ends with
\* outcome: the status, and whether the provider was called
CheckPhoneResult(body, outcome) ==
  IF ~CheckPhoneValid(body) \/ body.phone_number = None
  THEN [status |-> 400, called |-> FALSE]
  ELSE IF outcome # 201
  THEN [status |-> handleDiditApiError(outcome), called |-> TRUE]
  ELSE [status |-> 200, called |-> TRUE]

\* the answer to a POST /phone/check of ip: the limiter of the route first,
\* then the handler
PostPhoneCheckStatus(ip, body, outcome) ==
  IF RateLimited("phoneLimiter", hits["phoneLimiter"][ip] + 1)
  THEN 429
  ELSE CheckPhoneResult(body, outcome).status

PostPhoneCheck ==
  \E ip \in IPs, body \in CheckPhoneBodies :
    /\ hits["phoneLimiter"][ip] < HitBound("phoneLimiter", ip)
    /\ hits' = Counted("phoneLimiter", ip)
    /\ IF RateLimited("phoneLimiter", hits["phoneLimiter"][ip] + 1)
       THEN /\ last' = Refused("phoneLimiter", Missing)
            /\ UNCHANGED reached
       ELSE \E outcome \in (IF CheckPhoneValid(body) /\ body.phone_number # None
                             THEN ProviderOutcomes ELSE {201}) :
              /\ reached' = LetThrough("phoneLimiter", ip)
              /\ last' = [ handler |-> "checkPhoneVerificationCode",
                           status  |-> CheckPhoneResult(body, outcome).status ]
    /\ UNCHANGED <<users, cache, now, secret, inflight, accepted, everVerified,
                   nWebhooks, nDocs, phoneCache, ui>>

(***************************************************************************)
(* getUserVerificationStatus                                               *)
(***************************************************************************)
\* (mutant for C10) the mask keeping the last 3 characters
C10Mutant_maskPhoneNumber(phone) ==
  IF Len(phone) <= 4 THEN phone
  ELSE <<"*", "*", "*">> \o SubSeq(phone, Len(phone) - 2, Len(phone))

\* '***' + phone.slice(-4), for a phone of more than 4 characters
maskPhoneNumber(phone) ==
  IF Len(phone) <= 4 THEN phone
  ELSE <<"*", "*", "*">> \o SubSeq(phone, Len(phone) - 3, Len(phone))

\* (mutant for C23) the stored number returned as it is
C23Mutant_StatusData(u, user) ==
  [ userId              |-> u,
    email               |-> user.email,
    kycStatus           |-> user.kycStatus,
    kycProvider         |-> user.kycProvider,
    idVerified          |-> user.idVerified,
    phoneVerified       |-> user.phoneVerified,
    phoneNumber         |-> user.phoneNumber,
    verificationRetries |-> user.verificationRetries,
    retriesRemaining    |-> IF MAX_VERIFICATION_RETRIES - user.verificationRetries > 0
                            THEN MAX_VERIFICATION_RETRIES - user.verificationRetries
                            ELSE 0,
    lastAttempt         |-> user.lastVerificationAttempt,
    completedAt         |-> user.kycCompletedAt,
    tradingEnabled      |-> user.tradingEnabled ]

\* the data object of the 200 response
StatusData(u, user) ==
  [ userId              |-> u,
    email               |-> user.email,
    kycStatus           |-> user.kycStatus,
    kycProvider         |-> user.kycProvider,
    idVerified          |-> user.idVerified,
    phoneVerified       |-> user.phoneVerified,
    phoneNumber         |-> IF user.phoneNumber # None /\ user.phoneNumber[1] # <<>>
                            THEN Some(maskPhoneNumber(user.phoneNumber[1]))
                            ELSE None,
    verificationRetries |-> user.verificationRetries,
    retriesRemaining    |-> IF MAX_VERIFICATION_RETRIES - user.verificationRetries > 0
                            THEN MAX_VERIFICATION_RETRIES - user.verificationRetries
                            ELSE 0,
    lastAttempt         |-> user.lastVerificationAttempt,
    completedAt         |-> user.kycCompletedAt,
    tradingEnabled      |-> user.tradingEnabled ]

\* the handler for user id u: the status and the data of the body
GetUserVerificationStatusResult(us, u) ==
  IF HasRow(us, u)
  THEN [status |-> 200, data |-> Some(StatusData(u, us[u][1]))]
  ELSE [status |-> 404, data |-> None]

\* (mutant for C24) a row created for an id that has none
C24Mutant_GetUserVerificationStatusOn(u) ==
  LET r == GetUserVerificationStatusResult(users, u) IN
  /\ last' = [ handler     |-> "getUserVerificationStatus",
               status      |-> 200,
               userId      |-> u,
               phoneNumber |-> IF r.data # None THEN r.data[1].phoneNumber ELSE None ]
  /\ users' = IF HasRow(users, u) THEN users ELSE [users EXCEPT ![u] = Some(NewUser(u))]
  /\ UNCHANGED <<cache, now, secret, inflight, accepted, everVerified,
                 nWebhooks, nDocs, front>>

\* GET /status/:userId; the response is kept with the phone number it showed
GetUserVerificationStatusOn(u) ==
  LET r == GetUserVerificationStatusResult(users, u) IN
  /\ last' = [ handler     |-> "getUserVerificationStatus",
               status      |-> r.status,
               userId      |-> u,
               phoneNumber |-> IF r.data # None THEN r.data[1].phoneNumber ELSE None ]
  /\ UNCHANGED <<users, cache, now, secret, inflight, accepted, everVerified,
                 nWebhooks, nDocs, front>>

GetUserVerificationStatus == \E u \in UserIds : GetUserVerificationStatusOn(u)

(***************************************************************************)
(* Environment: the clock and the expiry of cache entries                  *)
(***************************************************************************)
Tick ==
  /\ now < MaxClock
  /\ now' = now + 1
  /\ UNCHANGED <<users, cache, secret, inflight, last, accepted, everVerified,
                 nWebhooks, nDocs, front>>

\* an entry set with EX: SESSION_TTL expires
CacheExpire ==
  \E sid \in SessionIds :
    /\ cache[sid] # None
    /\ cache' = [cache EXCEPT ![sid] = None]
    /\ UNCHANGED <<users, now, secret, inflight, last, accepted, everVerified,
                   nWebhooks, nDocs, front>>

(***************************************************************************)
(* The bundled client: App (phone flow) and VerificationAPI                *)
(***************************************************************************)
\* the browser the client runs in, and the user id it sends
UiClient == "ip1"
effectiveUserId == "u1"

NoCall == [fn |-> "none"]

\* useState('') of the fields, useState(false) of busy
UiInitial ==
  [ phoneNumber |-> <<>>, requestId |-> "", code |-> <<>>,
    busy |-> FALSE, message |-> "", call |-> NoCall ]

\* VerificationAPI.sendPhoneCode: the JSON body it posts
sendPhoneCode(phoneNumber, userId) == [phoneNumber |-> phoneNumber, userId |-> userId]

\* VerificationAPI.checkPhoneCode: of its argument it posts code and phoneNumber
checkPhoneCode(args) == [code |-> args.code, phoneNumber |-> args.phoneNumber]

\* req.body[k] after express.json(): the value, or undefined for an absent key
Field(sent, k) == IF k \in DOMAIN sent THEN Some(sent[k]) ELSE None

\* what sendPhoneVerificationCode reads of a posted body
SendBodyOf(sent) ==
  [ phone_number |-> Field(sent, "phone_number"),
    phoneNumber  |-> Field(sent, "phoneNumber"),
    userId       |-> IF "userId" \in DOMAIN sent THEN sent.userId ELSE Missing ]

\* what checkPhoneVerificationCode reads of a posted body
CheckBodyOf(sent) ==
  [ code         |-> Field(sent, "code"),
    phone_number |-> Field(sent, "phone_number") ]

\* res?.data?.request_id || '' where res is the JSON body of the 200
RequestIdOf(res) ==
  IF "data" \in DOMAIN res /\ "request_id" \in DOMAIN res.data
  THEN res.data.request_id
  ELSE ""

\* the user types into the phone number, request id or code field
UiInput ==
  /\ \/ \E v \in {<<>>, PhoneLong} : ui' = [ui EXCEPT !.phoneNumber = v]
     \/ \E v \in {""} \cup RequestIds : ui' = [ui EXCEPT !.requestId = v]
     \/ \E v \in {<<>>, CodeGood} : ui' = [ui EXCEPT !.code = v]
  /\ ui' # ui
  /\ UNCHANGED <<users, cache, now, secret, inflight, last, accepted, everVerified,
                 nWebhooks, nDocs, hits, reached, phoneCache>>

\* sendPhone up to its await: the button is enabled only while not busy
UiSendPhone ==
  /\ ~ui.busy
  /\ IF ui.phoneNumber = <<>>
     THEN ui' = [ui EXCEPT !.message = "Enter phone number in E.164 format"]
     ELSE ui' = [ui EXCEPT !.busy = TRUE,
                           !.message = "Sending code...",
                           !.call = [ fn   |-> "sendPhoneCode",
                                      body |-> sendPhoneCode(ui.phoneNumber,
                                                             effectiveUserId) ]]
  /\ ui' # ui
  /\ UNCHANGED <<users, cache, now, secret, inflight, last, accepted, everVerified,
                 nWebhooks, nDocs, hits, reached, phoneCache>>

\* the route answers the posted request and sendPhone runs to its end: the
\* try block on a 2xx, the catch block otherwise, then finally
UiSendPhoneDone ==
  /\ ui.call.fn = "sendPhoneCode"
  /\ hits["phoneLimiter"][UiClient] < HitBound("phoneLimiter", UiClient)
  /\ hits' = Counted("phoneLimiter", UiClient)
  /\ LET body == SendBodyOf(ui.call.body) IN
     IF RateLimited("phoneLimiter", hits["phoneLimiter"][UiClient] + 1)
     THEN /\ last' = Refused("phoneLimiter", body.userId)
          /\ ui' = [ui EXCEPT !.busy = FALSE, !.message = "Error", !.call = NoCall]
          /\ UNCHANGED <<reached, phoneCache>>
     ELSE \E outcome \in ProviderOutcomes, rid \in RequestIds :
          \E redisOK \in (IF outcome = 201 THEN BOOLEAN ELSE {TRUE}) :
            LET r == SendPhoneResult(phoneCache, body, outcome, rid, redisOK) IN
            /\ reached' = LetThrough("phoneLimiter", UiClient)
            /\ phoneCache' = r.phoneCache
            /\ last' = [ handler |-> "sendPhoneVerificationCode", status |-> r.status,
                         data |-> r.data ]
            /\ ui' = IF r.status = 200
                     THEN [ui EXCEPT !.busy = FALSE, !.message = "Code sent",
                                     !.requestId = RequestIdOf(r.data[1]),
                                     !.call = NoCall]
                     ELSE [ui EXCEPT !.busy = FALSE, !.message = "Error",
                                     !.call = NoCall]
  /\ UNCHANGED <<users, cache, now, secret, inflight, accepted, everVerified,
                 nWebhooks, nDocs>>

\* checkPhone up to its await
UiCheckPhone ==
  /\ ~ui.busy
  /\ IF ui.requestId = "" \/ ui.code = <<>>
     THEN ui' = [ui EXCEPT !.message = "Provide requestId and code"]
     ELSE ui' = [ui EXCEPT !.busy = TRUE,
                           !.message = "Verifying code...",
                           !.call = [ fn   |-> "checkPhoneCode",
                                      body |-> checkPhoneCode(
                                                 [ requestId   |-> ui.requestId,
                                                   code        |-> ui.code,
                                                   userId      |-> effectiveUserId,
                                                   phoneNumber |-> ui.phoneNumber ]) ]]
  /\ ui' # ui
  /\ UNCHANGED <<users, cache, now, secret, inflight, last, accepted, everVerified,
                 nWebhooks, nDocs, hits, reached, phoneCache>>

\* the route answers the posted request and checkPhone runs to its end; the
\* message of the try block depends on the provider's answer
UiCheckPhoneDone ==
  /\ ui.call.fn = "checkPhoneCode"
  /\ hits["phoneLimiter"][UiClient] < HitBound("phoneLimiter", UiClient)
  /\ hits' = Counted("phoneLimiter", UiClient)
  /\ LET body == CheckBodyOf(ui.call.body) IN
     IF RateLimited("phoneLimiter", hits["phoneLimiter"][UiClient] + 1)
     THEN /\ last' = Refused("phoneLimiter", Missing)
          /\ ui' = [ui EXCEPT !.busy = FALSE, !.message = "Error", !.call = NoCall]
          /\ UNCHANGED reached
     ELSE \E outcome \in (IF CheckPhoneValid(body) /\ body.phone_number # None
                           THEN ProviderOutcomes ELSE {201}) :
          \E verdict \in {"Phone verified", "Invalid code"} :
            LET r == CheckPhoneResult(body, outcome) IN
            /\ reached' = LetThrough("phoneLimiter", UiClient)
            /\ last' = [ handler |-> "checkPhoneVerificationCode", status |-> r.status,
                         called |-> r.called ]
            /\ ui' = [ui EXCEPT !.busy = FALSE,
                                !.message = IF r.status = 200 THEN verdict ELSE "Error",
                                !.call = NoCall]
  /\ UNCHANGED <<users, cache, now, secret, inflight, accepted, everVerified,
                 nWebhooks, nDocs, phoneCache>>

\* clearAll: the fields and the message, not busy
UiClearAll ==
  /\ ~ui.busy
  /\ ui' = [ui EXCEPT !.phoneNumber = <<>>, !.requestId = "", !.code = <<>>,
                      !.message = ""]
  /\ ui' # ui
  /\ UNCHANGED <<users, cache, now, secret, inflight, last, accepted, everVerified,
                 nWebhooks, nDocs, hits, reached, phoneCache>>

(***************************************************************************)
(* The specification                                                       *)
(***************************************************************************)
Init ==
  /\ users = [u \in UserIds |-> None]
  /\ cache = [sid \in SessionIds |-> None]
  /\ now = 1
  /\ secret \in {"k1", Missing}
  /\ inflight = [s \in Slots |-> Idle]
  /\ last = [handler |-> "none", status |-> 0]
  /\ accepted = [u \in UserIds |-> 0]
  /\ everVerified = [u \in UserIds |-> FALSE]
  /\ nWebhooks = 0
  /\ nDocs = 0
  /\ hits = [l \in Limiters |-> [ip \in IPs |-> 0]]
  /\ reached = [l \in Limiters |-> [ip \in IPs |-> 0]]
  /\ phoneCache = [rid \in RequestIds |-> None]
  /\ ui = UiInitial

\* no session-creation request is between two of its awaits
Quiet == \A s \in Slots : inflight[s] = Idle

\* requests served strictly one after another
Next ==
  \/ Quiet /\ SessionBegin
  \/ SessionCreate
  \/ SessionProvider
  \/ Quiet /\ HandleWebhook
  \/ Quiet /\ DiditWebhook
  \/ Quiet /\ VerifyIdDocument
  \/ Quiet /\ GetUserVerificationStatus
  \/ Quiet /\ Tick
  \/ Quiet /\ CacheExpire

Spec == Init /\ [][Next]_vars

\* session-creation requests overlap with each other and with the other
\* requests, up to MaxInFlight at a time
NextConc ==
  \/ SessionBegin
  \/ SessionCreate
  \/ SessionProvider
  \/ HandleWebhookConc
  \/ DiditWebhookConc
  \/ VerifyIdDocument
  \/ GetUserVerificationStatus
  \/ Tick
  \/ CacheExpire

SpecConc == Init /\ [][NextConc]_vars

\* the routes with a rate limiter, requests served one after another
NextApi ==
  \/ Quiet /\ PostSessionCreate
  \/ SessionCreate
  \/ SessionProvider
  \/ Quiet /\ PostPhoneSend
  \/ Quiet /\ PostPhoneCheck
  \/ Quiet /\ PhoneExpire
  \/ Quiet /\ WindowReset

\* the routes of a server configured with the webhook secret
InitApi == Init /\ secret = "k1"

SpecApi == InitApi /\ [][NextApi]_vars

\* a client that only asks for codes: every request the phone limiter has
\* counted is a POST /phone/send
NextSend ==
  \/ Quiet /\ PostPhoneSend
  \/ Quiet /\ PhoneExpire
  \/ Quiet /\ WindowReset

SpecSend == InitApi /\ [][NextSend]_vars

\* the bundled client driving the phone routes of the server
NextUi ==
  \/ UiInput
  \/ UiSendPhone
  \/ UiSendPhoneDone
  \/ UiCheckPhone
  \/ UiCheckPhoneDone
  \/ UiClearAll
  \/ Quiet /\ PhoneExpire
  \/ Quiet /\ WindowReset

SpecUi == InitApi /\ [][NextUi]_vars

(***************************************************************************)
(* Properties                                                              *)
(***************************************************************************)
\* the header is the digest, under the configured secret, of the body
SigMatches(req) ==
  secret # Missing /\ req.sig = Some(Hmac(secret, Stringify(Body(req))))

Row(us, u) == us[u][1]

\* C1: a request to handleWebhook whose signature header is missing, or that
\* arrives while no secret is configured, or whose header differs from the
\* digest of the body under the secret (a header of another length included),
\* is answered 401 and leaves the user store and the cache as they were.
C1_RejectedWebhookChangesNothing ==
  \A req \in WebhookRequests, f \in WebhookFaults :
    ~SigMatches(req) =>
      LET r == HandleWebhookResult(users, cache, now, req, f)
      IN r.status = 401 /\ r.users = users /\ r.cache = cache

\* C1 (witness): a request was rejected while a row and a cache entry existed
C1_Witness ==
  /\ last = [handler |-> "handleWebhook", status |-> 401]
  /\ secret = "k1"
  /\ HasRow(users, "u1")
  /\ cache["s1"] # None

\* C2: every request whose signature verifies is answered 200 by handleWebhook
\* and by diditWebhookHandler, whichever write or cache call fails and whether
\* or not vendor_data names a row; so a response other than 200 comes only
\* from a signature that does not verify.
C2_SignedWebhookGets200 ==
  /\ \A req \in WebhookRequests, f \in WebhookFaults :
       SigMatches(req) => HandleWebhookResult(users, cache, now, req, f).status = 200
  /\ \A req \in DiditRequests, f \in WebhookFaults :
       SigMatches(req) => DiditWebhookResult(users, cache, now, req, f).status = 200

\* C2 (witness): a signed webhook was answered 200 although no row exists
C2_Witness ==
  /\ last = [handler |-> "handleWebhook", status |-> 200]
  /\ nWebhooks = 1
  /\ \A u \in UserIds : ~HasRow(users, u)

\* C3: after a signed status.updated webhook whose row write succeeds, the
\* kycStatus of the user is VERIFIED for Approved (with kycCompletedAt the
\* current time), FAILED for Declined, PENDING for In Review, and for every
\* other status kycStatus and kycCompletedAt are what they were.
C3_StatusMapping ==
  secret # Missing =>
    \A p \in Payloads, f \in WebhookFaults :
      (p.webhook_type = "status.updated" /\ HasRow(users, p.vendor_data) /\ f.db # "first") =>
        LET r   == HandleWebhookResult(users, cache, now, Signed(p), f)
            old == Row(users, p.vendor_data)
            new == Row(r.users, p.vendor_data)
        IN /\ r.status = 200
           /\ p.status = "Approved" =>
                new.kycStatus = "VERIFIED" /\ new.kycCompletedAt = Some(now)
           /\ p.status = "Declined" => new.kycStatus = "FAILED"
           /\ p.status = "In Review" => new.kycStatus = "PENDING"
           /\ p.status \notin {"Approved", "Declined", "In Review"} =>
                new.kycStatus = old.kycStatus /\ new.kycCompletedAt = old.kycCompletedAt

\* C3 (witness): an Approved webhook handled at time 2 left VERIFIED, completed at 2
C3_Witness ==
  /\ last = [handler |-> "handleWebhook", status |-> 200]
  /\ HasRow(users, "u1")
  /\ Row(users, "u1").kycStatus = "VERIFIED"
  /\ Row(users, "u1").kycCompletedAt = Some(2)

\* C4: a session-creation request (either handler) for a user whose kycStatus
\* is VERIFIED is answered with the 200 'already verified' response, whatever
\* the user's verificationRetries.  (Requests are served one at a time, so the
\* row of the user of the last response is the row the request read.)
C4_VerifiedUserGetsAlreadyVerified ==
  (/\ last.handler \in SessionHandlers
   /\ HasRow(users, last.userId)
   /\ Row(users, last.userId).kycStatus = "VERIFIED")
  => (last.status = 200 /\ last.error = "none")

\* C5: the stored verificationRetries of every user is at most
\* MAX_VERIFICATION_RETRIES in every reachable state, however session
\* creations, webhooks and document verifications interleave; and a request
\* goes on to the provider only if the counter it read was below the maximum.
C5_RetriesBounded ==
  /\ \A u \in UserIds :
       HasRow(users, u) => Row(users, u).verificationRetries <= MAX_VERIFICATION_RETRIES
  /\ \A s \in Slots :
       inflight[s].pc = "provider" => inflight[s].readRetries < MAX_VERIFICATION_RETRIES

\* C5 (witness): overlapping requests were accepted beyond the maximum and
\* the counter stands at the maximum
C5_Witness ==
  /\ HasRow(users, "u1")
  /\ accepted["u1"] > MAX_VERIFICATION_RETRIES
  /\ Row(users, "u1").verificationRetries = MAX_VERIFICATION_RETRIES

\* C6: with requests served one at a time, a user who was never verified has
\* 3 session creations accepted before the first is rejected for the retry
\* limit, and never more than 3.
C6_ThreeAttempts ==
  /\ \A u \in UserIds : accepted[u] <= 3
  /\ (/\ last.handler \in SessionHandlers
      /\ last.error = LimitError
      /\ ~everVerified[last.userId])
     => accepted[last.userId] = 3

\* the verification fields of a row
VerificationFields(user) ==
  [ kycStatus           |-> user.kycStatus,
    kycCompletedAt      |-> user.kycCompletedAt,
    kycProvider         |-> user.kycProvider,
    kycDetails          |-> user.kycDetails,
    idVerified          |-> user.idVerified,
    phoneVerified       |-> user.phoneVerified,
    phoneNumber         |-> user.phoneNumber,
    tradingEnabled      |-> user.tradingEnabled,
    verificationRetries |-> user.verificationRetries ]

\* C7: delivering a signed status.updated payload a second time, at the same
\* or a later time, leaves the verification fields of the user as the first
\* delivery left them.
C7_RedeliveryIdempotent ==
  secret # Missing =>
    \A p \in Payloads, t2 \in now..MaxClock :
      (p.webhook_type = "status.updated" /\ HasRow(users, p.vendor_data)) =>
        LET r1 == HandleWebhookResult(users, cache, now, Signed(p), NoFault)
            r2 == HandleWebhookResult(r1.users, r1.cache, t2, Signed(p), NoFault)
        IN VerificationFields(Row(r2.users, p.vendor_data))
             = VerificationFields(Row(r1.users, p.vendor_data))

\* C8: a user whose tradingEnabled is true has had kycStatus set to VERIFIED
\* by the same or an earlier webhook, whatever the types and statuses of the
\* signed webhooks received.
C8_TradingOnlyAfterVerified ==
  \A u \in UserIds :
    (HasRow(users, u) /\ Row(users, u).tradingEnabled) => everVerified[u]

\* C9: once tradingEnabled is true for a user, no operation writes it back to
\* false: not a webhook of either handler with any payload and any fault, not
\* a document verification, not the row write of a session creation.
C9_TradingMonotonic ==
  \A u \in UserIds :
    (HasRow(users, u) /\ Row(users, u).tradingEnabled) =>
      /\ \A req \in WebhookRequests, f \in WebhookFaults :
           Row(HandleWebhookResult(users, cache, now, req, f).users, u).tradingEnabled
      /\ \A req \in DiditRequests, f \in WebhookFaults :
           Row(DiditWebhookResult(users, cache, now, req, f).users, u).tradingEnabled
      /\ \A v \in UserIds, outcome \in ProviderOutcomes, st \in DocumentStatuses,
            dbOK \in BOOLEAN :
           Row(VerifyIdDocumentResult(users, v, outcome, st, dbOK).users, u).tradingEnabled
      /\ \A r \in 0..MAX_VERIFICATION_RETRIES :
           Row(SessionWrite(users, u, r, now), u).tradingEnabled

\* C9 (witness): a document verification has been served after the flag was set
C9_Witness ==
  /\ last = [handler |-> "verifyIdDocument", status |-> 200]
  /\ HasRow(users, "u1")
  /\ Row(users, "u1").tradingEnabled

\* the webhook of the scenario of C10
ScenarioRequest ==
  Signed(Payload("s1", "Approved", "u1", "status.updated", Some(DecisionFull), None))

\* C10: right after createVerificationSession answered 201 with retriesUsed = 1
\* for user u1, the signed Approved status.updated webhook for u1 whose
\* decision approves the document and the phone +15551234567 is answered 200
\* and leaves a row for which getUserVerificationStatus reports VERIFIED,
\* idVerified, phoneVerified, tradingEnabled and the phone number ***4567.
C10_Scenario ==
  (/\ secret # Missing
   /\ last = SessionResp("createVerificationSession", "u1", 201, "none", 0))
  => LET r == HandleWebhookResult(users, cache, now, ScenarioRequest, NoFault)
         d == StatusData("u1", Row(r.users, "u1"))
     IN /\ r.status = 200
        /\ d.kycStatus = "VERIFIED"
        /\ d.idVerified
        /\ d.phoneVerified
        /\ d.tradingEnabled
        /\ d.phoneNumber = Some(<<"*", "*", "*", "4", "5", "6", "7">>)

\* C10 (witness): the scenario has run: one session accepted for u1, then the
\* webhook handled, and the status of u1 reads as the scenario says
C10_Witness ==
  /\ last = [handler |-> "handleWebhook", status |-> 200]
  /\ accepted["u1"] = 1
  /\ HasRow(users, "u1")
  /\ Row(users, "u1").verificationRetries = 1
  /\ StatusData("u1", Row(users, "u1")).kycStatus = "VERIFIED"
  /\ StatusData("u1", Row(users, "u1")).tradingEnabled
  /\ StatusData("u1", Row(users, "u1")).idVerified
  /\ StatusData("u1", Row(users, "u1")).phoneVerified
  /\ StatusData("u1", Row(users, "u1")).phoneNumber = Some(<<"*", "*", "*", "4", "5", "6", "7">>)

\* the callbacks of the provider for user u1: signed status.updated payloads
ProviderCallback(st) ==
  Signed(Payload("s1", st, "u1", "status.updated", Some(DecisionFull), None))

\* C11: a signed provider callback delivered to the callback URL that session
\* creation registers leaves kycStatus = VERIFIED when its status is Approved
\* and PENDING when its status is In Review.
C11_CallbackUrlAppliesMapping ==
  (secret # Missing /\ HasRow(users, "u1")) =>
    /\ Row(DeliverWebhook(CALLBACK_URL, users, cache, now,
                          ProviderCallback("Approved"), NoFault).users, "u1").kycStatus
         = "VERIFIED"
    /\ Row(DeliverWebhook(CALLBACK_URL, users, cache, now,
                          ProviderCallback("In Review"), NoFault).users, "u1").kycStatus
         = "PENDING"

\* C12: the legacy webhook endpoint answers every request with 200 or 401,
\* and answers 401, changing nothing, when the signature header is missing,
\* has another length than the digest, has the length but not the content of
\* the digest, or when no secret is configured.
C12_LegacyRejectsWith401 ==
  /\ last.handler = "diditWebhookHandler" => last.status \in {200, 401}
  /\ \A req \in DiditRequests, f \in WebhookFaults :
       ~SigMatches(req) =>
         LET r == DiditWebhookResult(users, cache, now, req, f)
         IN r.status = 401 /\ r.users = users /\ r.cache = cache

\* the header is the digest, under the configured secret, of the raw body
\* as received
RawSigMatches(req) ==
  secret # Missing /\ req.sig = Some(Hmac(secret, req.raw))

\* C13: with a secret configured, a webhook request whose signature header is
\* not the digest of its raw body, byte for byte, is answered 401 and changes
\* nothing, also when its body parses to the value of a body the signature was
\* computed over (both webhook handlers).
C13_SignatureOverRawBody ==
  secret # Missing =>
    /\ \A req \in WebhookRequests, f \in WebhookFaults :
         ~RawSigMatches(req) =>
           LET r == HandleWebhookResult(users, cache, now, req, f)
           IN r.status = 401 /\ r.users = users /\ r.cache = cache
    /\ \A req \in DiditRequests, f \in WebhookFaults :
         ~RawSigMatches(req) =>
           LET r == DiditWebhookResult(users, cache, now, req, f)
           IN r.status # 200 /\ r.users = users /\ r.cache = cache

\* contents the cache may have when a webhook arrives: no entry, an entry of
\* the user, an entry of another user, a text that does not parse
EmptyCache == [sid \in SessionIds |-> None]
CacheOf(text) == [sid \in SessionIds |-> Some(text)]
CacheVariants ==
  { EmptyCache, CacheOf(Stringify([userId |-> "u1"])), CacheOf(Stringify([userId |-> "u2"])),
    CacheOf(<<"garbage", [userId |-> Missing]>>) }

\* the cache as a webhook may find it: any of the contents with the client
\* answering, or the cache of the state with the client answering or throwing
CacheSituations ==
  {<<ca, TRUE>> : ca \in CacheVariants \cup {cache}} \cup {<<cache, FALSE>>}

\* the payloads of the three mapped statuses, with and without a full decision
CachePayloads ==
  {p \in Payloads : /\ p.status \in {"Approved", "Declined", "In Review"}
                    /\ p.decision \in {None, Some(DecisionFull)}}

\* C14: for every signed webhook, the response and the user store that either
\* handler leaves are the same whatever the cache holds (nothing, an entry of
\* this or of another user, a text that does not parse) and whether or not the
\* cache client throws; and no row other than the one vendor_data names changes.
C14_CacheDoesNotInfluence ==
  secret # Missing =>
    /\ \A p \in CachePayloads :
         LET r0 == HandleWebhookResult(users, EmptyCache, now, Signed(p), NoFault) IN
         /\ \A u \in UserIds : u # p.vendor_data => r0.users[u] = users[u]
         /\ \A c \in CacheSituations :
              LET r == HandleWebhookResult(users, c[1], now, Signed(p),
                                           [db |-> "none", redisOK |-> c[2]])
              IN r.status = r0.status /\ r.users = r0.users
    /\ \A p \in DiditPayloads :
         LET r0 == DiditWebhookResult(users, EmptyCache, now, Signed(p), NoFault) IN
         /\ \A u \in UserIds : u # p.vendor_data => r0.users[u] = users[u]
         /\ \A c \in CacheSituations :
              LET r == DiditWebhookResult(users, c[1], now, Signed(p),
                                          [db |-> "none", redisOK |-> c[2]])
              IN r.status = r0.status /\ r.users = r0.users

\* C14 (witness): a webhook for u1 was applied although the cache held no
\* entry for its session
C14_Witness ==
  /\ last = [handler |-> "handleWebhook", status |-> 200]
  /\ accepted["u1"] = 0
  /\ cache = EmptyCache
  /\ HasRow(users, "u1")
  /\ Row(users, "u1").kycStatus = "VERIFIED"

\* C15: after handleWebhook has processed a signed webhook whose status is
\* Approved, Declined or Abandoned, with the cache client answering and no
\* user-store fault, the cache holds no entry for its session_id, for every
\* webhook_type and whether or not vendor_data names an existing row.
C15_TerminalStatusDeletesEntry ==
  secret # Missing =>
    \A p \in Payloads :
      p.status \in TerminalStatuses =>
        HandleWebhookResult(users, cache, now, Signed(p), NoFault).cache[p.session_id] = None

\* C16: a cache failure aborts no primary flow.  When the cache write throws,
\* createVerificationSession answers 201 with the counter one higher and
\* sendPhoneVerificationCode answers 200 with the data of the provider; when
\* the cache read and delete throw, handleWebhook leaves the user store as it
\* does with the cache answering, a status.updated Approved for an existing
\* row giving VERIFIED and, with a decision, tradingEnabled.
C16_CacheFailureDoesNotAbort ==
  /\ \A s \in Slots, sid \in NewSessionIds :
       (inflight[s].pc = "provider" /\ inflight[s].handler = "createVerificationSession") =>
         LET u == inflight[s].userId
             r == SessionProviderResult(users, cache, now, inflight[s], 201, sid, TRUE, FALSE)
         IN /\ r.resp.status = 201
            /\ r.accepted
            /\ Row(r.users, u).verificationRetries = Row(users, u).verificationRetries + 1
  /\ \A body \in SendPhoneBodies, rid \in RequestIds :
       (SendPhoneValid(body) /\ IncomingNumber(body) # None) =>
         LET r == SendPhoneResult(phoneCache, body, 201, rid, FALSE) IN
         /\ r.status = 200
         /\ r.data = Some(SendPhoneData(rid, IncomingNumber(body)[1]))
  /\ \A p \in CachePayloads :
       LET r == HandleWebhookResult(users, cache, now, Signed(p),
                                    [db |-> "none", redisOK |-> FALSE])
           u == p.vendor_data
       IN /\ r.status = 200
          /\ r.users = HandleWebhookResult(users, cache, now, Signed(p), NoFault).users
          /\ (HasRow(users, u) /\ p.webhook_type = "status.updated" /\ p.status = "Approved") =>
               /\ Row(r.users, u).kycStatus = "VERIFIED"
               /\ p.decision # None => Row(r.users, u).tradingEnabled

\* C16 (witness): a session was accepted and a phone code sent, each with 200
\* or 201, and neither left a cache entry
C16_Witness ==
  /\ last = [handler |-> "sendPhoneVerificationCode", status |-> 200]
  /\ phoneCache["r1"] = None
  /\ accepted["u1"] = 1
  /\ HasRow(users, "u1")
  /\ Row(users, "u1").verificationRetries = 1
  /\ cache["s1"] = None

\* C17: a failed provider call aborts the handler.  In createVerificationSession
\* the response is one of the mapped error statuses, the user store (so the
\* counter and lastVerificationAttempt) and the cache are as before and nothing
\* is accepted; in verifyIdDocument the user store is as before.
C17_ProviderFailureAborts ==
  /\ \A s \in Slots, e \in ProviderErrors, sid \in NewSessionIds :
       (inflight[s].pc = "provider" /\ inflight[s].handler = "createVerificationSession") =>
         LET r == SessionProviderResult(users, cache, now, inflight[s], e, sid, TRUE, TRUE) IN
         /\ r.resp.status \in {400, 404, 429, 500, 502}
         /\ r.users = users
         /\ r.cache = cache
         /\ ~r.accepted
  /\ \A u \in UserIds, e \in ProviderErrors :
       LET r == VerifyIdDocumentResult(users, u, e, Missing, TRUE) IN
       /\ r.status \in {400, 404, 429, 500, 502}
       /\ r.users = users

\* C17 (witness): the first request of u1 ended with the 404 of the provider:
\* the row has no attempt counted and nothing is cached
C17_Witness ==
  /\ last.handler = "createVerificationSession"
  /\ last.status = 404
  /\ HasRow(users, "u1")
  /\ Row(users, "u1").verificationRetries = 0
  /\ Row(users, "u1").lastVerificationAttempt = None
  /\ cache = EmptyCache
  /\ accepted["u1"] = 0

\* the local status the error taxonomy gives for an upstream outcome
TaxonomyStatus(upstream) ==
  IF upstream \in {401, 400, 429, 404} THEN upstream
  ELSE IF upstream = 403 THEN 500
  ELSE 502

\* C18: in every handler that reports provider failures through
\* handleDiditApiError the local status follows the taxonomy: upstream 401
\* gives 401, 403 gives 500, 400 gives 400, 429 gives 429, 404 gives 404, and
\* every other status or a network failure gives 502.
C18_ErrorMappingFollowsTaxonomy ==
  /\ \A s \in Slots, e \in ProviderErrors, sid \in NewSessionIds :
       (inflight[s].pc = "provider" /\ inflight[s].handler = "createVerificationSession") =>
         SessionProviderResult(users, cache, now, inflight[s], e, sid, TRUE, TRUE).resp.status
           = TaxonomyStatus(e)
  /\ \A u \in UserIds, e \in ProviderErrors :
       VerifyIdDocumentResult(users, u, e, Missing, TRUE).status = TaxonomyStatus(e)
  /\ \A body \in SendPhoneBodies, rid \in RequestIds, e \in ProviderErrors :
       (SendPhoneValid(body) /\ IncomingNumber(body) # None) =>
         SendPhoneResult(phoneCache, body, e, rid, TRUE).status = TaxonomyStatus(e)

\* C19: a user-store failure inside createVerificationSession or
\* verifyIdDocument (the row write throwing, or the update of a row that does
\* not exist) is answered with 500.
C19_StoreFailureIs500 ==
  /\ \A s \in Slots, sid \in NewSessionIds :
       (inflight[s].pc = "provider" /\ inflight[s].handler = "createVerificationSession") =>
         SessionProviderResult(users, cache, now, inflight[s], 201, sid, FALSE, TRUE).resp.status = 500
  /\ \A u \in UserIds, st \in {"verified", "Approved"} :
       /\ VerifyIdDocumentResult(users, u, 201, st, FALSE).status = 500
       /\ ~HasRow(users, u) => VerifyIdDocumentResult(users, u, 201, st, TRUE).status = 500

\* a step in which sessionLimiter counts a request of ip
SessionCounted(ip) == hits'["sessionLimiter"][ip] = hits["sessionLimiter"][ip] + 1

\* C20: per client IP at most 5 requests to POST /session/create reach the
\* validation or the handler in one window; a request counted after 5 others
\* of its IP in the window is answered 429 by the limiter whatever its body and
\* changes no user row, cache entry or request in flight; a request of an IP
\* that has fewer than 5 counted is let through whatever other IPs have sent.
C20_SessionRateLimit ==
  /\ [](\A ip \in IPs : reached["sessionLimiter"][ip] <= 5)
  /\ [][\A ip \in IPs :
          SessionCounted(ip) =>
            IF hits["sessionLimiter"][ip] >= 5
            THEN /\ last'.handler = "sessionLimiter"
                 /\ last'.status = 429
                 /\ UNCHANGED <<users, cache, inflight, accepted, reached, phoneCache>>
            ELSE /\ reached'["sessionLimiter"][ip] = reached["sessionLimiter"][ip] + 1
                 /\ ~(last' # last /\ last'.handler = "sessionLimiter")]_vars

\* C20 (witness): the 6th request of ip1 in a window, with an invalid userId,
\* was answered 429 by the limiter after 5 were let through
C20_Witness ==
  /\ last = [handler |-> "sessionLimiter", status |-> 429, userId |-> "not-a-uuid"]
  /\ hits["sessionLimiter"]["ip1"] = 6
  /\ reached["sessionLimiter"]["ip1"] = 5

\* C21: validation comes before every side effect.  A request that the
\* limiter lets through to createVerificationSession with a userId that is no
\* UUID or a malformed phone gets 400 and changes no row, no cache entry and
\* starts no provider call; sendPhoneVerificationCode with a malformed or
\* missing number or a bad userId, checkPhoneVerificationCode with a bad code
\* or a malformed or missing number, and verifyIdDocument with a bad userId,
\* an image that is not base64 or an unknown documentType answer 400 whatever
\* the provider would do, without calling it and without changing a row or a
\* cache entry.
C21_ValidationBeforeEffects ==
  /\ [][\A ip \in IPs, body \in SessionBodies, s \in Slots :
          ( /\ hits["sessionLimiter"][ip] < 5
            /\ hits'["sessionLimiter"][ip] = hits["sessionLimiter"][ip] + 1
            /\ (body.userId \notin {"u1", "u2"} \/ body.contactPhone = Some(PhoneBad))
            /\ PostSessionCreateOn(ip, body, s) )
          => /\ last'.handler = "createVerificationSession"
             /\ last'.status = 400
             /\ UNCHANGED <<users, cache, phoneCache, inflight, accepted>>]_vars
  /\ [](/\ \A body \in SendPhoneBodies, outcome \in ProviderOutcomes,
              rid \in RequestIds, redisOK \in BOOLEAN :
              ( \/ body.phone_number = Some(PhoneBad)
                \/ body.userId = "not-a-uuid"
                \/ (body.phone_number = None /\ body.phoneNumber = None) )
              => LET r == SendPhoneResult(phoneCache, body, outcome, rid, redisOK) IN
                 r.status = 400 /\ ~r.called /\ r.phoneCache = phoneCache
        /\ \A body \in CheckPhoneBodies, outcome \in ProviderOutcomes :
              ( \/ body.code \in {None, Some(CodeShort)}
                \/ body.phone_number \in {None, Some(PhoneBad)} )
              => LET r == CheckPhoneResult(body, outcome) IN
                 r.status = 400 /\ ~r.called
        /\ \A body \in IdBodies :
              ( \/ body.userId = "not-a-uuid"
                \/ body.frontImage = "not-base64"
                \/ body.backImage = "not-base64"
                \/ body.documentType = "selfie" )
              => \A outcome \in ProviderOutcomes, dbOK \in BOOLEAN :
                   LET r == VerifyIdDocumentRequest(users, body, outcome, "verified", dbOK) IN
                   r.status = 400 /\ ~r.called /\ r.users = users)

\* C21 (witness): a session request with a userId that is no UUID was let
\* through by the limiter and answered 400, and no row exists
C21_Witness ==
  /\ last = SessionResp("createVerificationSession", "not-a-uuid", 400, "validation", 0)
  /\ reached["sessionLimiter"]["ip1"] = 1
  /\ \A u \in UserIds : ~HasRow(users, u)
  /\ cache = EmptyCache

\* C22: in sequential execution a createVerificationSession request accepted
\* with 201 for a user whose counter is r leaves the counter at r + 1 and
\* lastVerificationAttempt at the time of the request, and reports
\* retriesUsed = r + 1 and retriesRemaining = MAX_VERIFICATION_RETRIES - (r + 1),
\* which is not negative; the two add up to MAX_VERIFICATION_RETRIES and
\* retriesUsed is the stored counter after the request.
C22_AcceptedCountsOne ==
  /\ \A s \in Slots, sid \in NewSessionIds, redisOK \in BOOLEAN :
       (inflight[s].pc = "provider" /\ inflight[s].handler = "createVerificationSession") =>
         LET u  == inflight[s].userId
             r0 == Row(users, u).verificationRetries
             r  == SessionProviderResult(users, cache, now, inflight[s], 201, sid, TRUE, redisOK)
         IN /\ r.resp.status = 201
            /\ Row(r.users, u).verificationRetries = r0 + 1
            /\ Row(r.users, u).lastVerificationAttempt = Some(now)
            /\ r.resp.retriesUsed = r0 + 1
            /\ r.resp.retriesRemaining = MAX_VERIFICATION_RETRIES - (r0 + 1)
            /\ r.resp.retriesRemaining >= 0
  /\ (last.handler = "createVerificationSession" /\ last.status = 201) =>
       /\ last.retriesRemaining >= 0
       /\ last.retriesUsed + last.retriesRemaining = MAX_VERIFICATION_RETRIES
       /\ last.retriesUsed = Row(users, last.userId).verificationRetries
       /\ Row(users, last.userId).lastVerificationAttempt # None

\* C22 (witness): the last attempt of u1 was accepted: 2 used, 0 remaining
C22_Witness ==
  /\ last.handler = "createVerificationSession"
  /\ last.status = 201
  /\ last.retriesUsed = 2
  /\ last.retriesRemaining = 0
  /\ Row(users, "u1").verificationRetries = 2

\* phone strings of every length from 1 to 12
PhoneSamples == {SubSeq(PhoneLong, 1, n) : n \in 1..Len(PhoneLong)}

\* '***' and the last 4 characters of a phone longer than 4, else the phone
MaskedForm(phone) ==
  LET n == Len(phone) IN
  IF n > 4 THEN <<"*", "*", "*", phone[n - 3], phone[n - 2], phone[n - 1], phone[n]>>
  ELSE phone

\* C23: maskPhoneNumber gives '***' followed by the last 4 characters for every
\* phone longer than 4 characters and the phone itself for every non-empty one
\* of at most 4; the phone number in a response of getUserVerificationStatus
\* is the masked form of the stored number, or null when none is stored.
C23_PhoneIsMasked ==
  /\ \A phone \in PhoneSamples : maskPhoneNumber(phone) = MaskedForm(phone)
  /\ \A u \in UserIds :
       HasRow(users, u) =>
         LET r == GetUserVerificationStatusResult(users, u) IN
         r.data[1].phoneNumber =
           IF Row(users, u).phoneNumber = None THEN None
           ELSE Some(MaskedForm(Row(users, u).phoneNumber[1]))
  /\ (last.handler = "getUserVerificationStatus" /\ last.status = 200) =>
       last.phoneNumber =
         IF Row(users, last.userId).phoneNumber = None THEN None
         ELSE Some(MaskedForm(Row(users, last.userId).phoneNumber[1]))

\* C23 (witness): the status of a user with a stored number was asked for and
\* the response showed the number masked
C23_Witness ==
  /\ last.handler = "getUserVerificationStatus"
  /\ last.status = 200
  /\ Row(users, last.userId).phoneNumber = Some(PhoneLong)
  /\ last.phoneNumber = Some(<<"*", "*", "*", "4", "5", "6", "7">>)

\* C24: getUserVerificationStatus is read-only.  A step that ends with its
\* response changes no row and no cache entry, and the response is 404 when
\* the id has no row and 200 otherwise; the retriesRemaining it reports is
\* max(0, MAX_VERIFICATION_RETRIES - verificationRetries).
C24_StatusIsReadOnly ==
  /\ [][(last'.handler = "getUserVerificationStatus" /\ last' # last) =>
          /\ users' = users
          /\ cache' = cache
          /\ phoneCache' = phoneCache
          /\ last'.status = IF HasRow(users, last'.userId) THEN 200 ELSE 404]_vars
  /\ [](\A u \in UserIds :
          LET r == GetUserVerificationStatusResult(users, u) IN
          IF HasRow(users, u)
          THEN /\ r.status = 200
               /\ r.data[1].userId = u
               /\ r.data[1].kycStatus = Row(users, u).kycStatus
               /\ r.data[1].verificationRetries = Row(users, u).verificationRetries
               /\ r.data[1].tradingEnabled = Row(users, u).tradingEnabled
               /\ r.data[1].retriesRemaining =
                    (IF Row(users, u).verificationRetries = 0 THEN 2
                     ELSE IF Row(users, u).verificationRetries = 1 THEN 1 ELSE 0)
          ELSE r.status = 404 /\ r.data = None)

\* C24 (witness): the status of an id without a row was asked for, the answer
\* was 404 and there is still no row
C24_Witness ==
  /\ last.handler = "getUserVerificationStatus"
  /\ last.status = 404
  /\ last.userId = "u2"
  /\ ~HasRow(users, "u2")
  /\ HasRow(users, "u1")

\* C25: verifyIdDocument changes at most the row of its userId, and that only
\* when the provider result is 'verified' or 'Approved' (and the write
\* succeeds): then idVerified becomes true and kycDetails the serialized
\* result, every other field keeping its value; in every other case the user
\* store is unchanged; no row is created and a true idVerified stays true.
C25_DocumentWritesTwoFields ==
  \A u \in UserIds, outcome \in ProviderOutcomes, st \in DocumentStatuses, dbOK \in BOOLEAN :
    LET r == VerifyIdDocumentResult(users, u, outcome, st, dbOK) IN
    IF HasRow(users, u) /\ outcome = 201 /\ st \in {"verified", "Approved"} /\ dbOK
    THEN r.users = [users EXCEPT ![u] =
                      Some([Row(users, u) EXCEPT
                              !.idVerified = TRUE,
                              !.kycDetails = Some(Stringify([status |-> st]))])]
    ELSE r.users = users

\* C25 (witness): a document of u1 was verified: the flag and the details are
\* set, the status and the other flags are those of a new row
C25_Witness ==
  /\ last = [handler |-> "verifyIdDocument", status |-> 200]
  /\ HasRow(users, "u1")
  /\ Row(users, "u1").idVerified
  /\ Row(users, "u1").kycDetails = Some(Stringify([status |-> "verified"]))
  /\ Row(users, "u1").kycStatus = "PENDING"
  /\ ~Row(users, "u1").phoneVerified
  /\ ~Row(users, "u1").tradingEnabled

\* C26: a signed data.updated webhook, whatever its status and decision,
\* leaves every field of the user's row as it is except kycDetails, which
\* becomes the serialized decision when a decision is present; no other row
\* changes.
C26_DataUpdateChangesOnlyDetails ==
  secret # Missing =>
    \A p \in Payloads :
      p.webhook_type = "data.updated" =>
        LET r == HandleWebhookResult(users, cache, now, Signed(p), NoFault)
            u == p.vendor_data
        IN /\ r.status = 200
           /\ IF HasRow(users, u) /\ p.decision # None
              THEN r.users = [users EXCEPT ![u] =
                                Some([Row(users, u) EXCEPT
                                        !.kycDetails = Some(Stringify(p.decision[1]))])]
              ELSE r.users = users

\* two requests of one user are both waiting for the provider, each having
\* read the counter when exactly one attempt remained
BothReadLastAttempt(s1, s2) ==
  /\ s1 # s2
  /\ inflight[s1].pc = "provider"
  /\ inflight[s2].pc = "provider"
  /\ inflight[s1].userId = inflight[s2].userId
  /\ inflight[s1].readRetries = MaxOf(inflight[s1].handler) - 1
  /\ inflight[s2].readRetries = MaxOf(inflight[s2].handler) - 1

\* C27: the retry check and the increment are not atomic.  Whenever two
\* session-creation requests of one user have both read the counter while one
\* attempt remained and both wait for the provider, both are accepted with 201
\* when the provider answers them one after the other, and the counter ends
\* at the maximum although two attempts were accepted.
C27_BothAcceptedOnLastAttempt ==
  \A s1, s2 \in Slots :
    BothReadLastAttempt(s1, s2) =>
      LET u  == inflight[s1].userId
          r1 == SessionProviderResult(users, cache, now, inflight[s1], 201, "s1", TRUE, TRUE)
          r2 == SessionProviderResult(r1.users, r1.cache, now, inflight[s2], 201, "s1", TRUE, TRUE)
      IN /\ r1.resp.status = 201 /\ r1.accepted
         /\ r2.resp.status = 201 /\ r2.accepted
         /\ Row(r2.users, u).verificationRetries = MaxOf(inflight[s1].handler)

\* C27 (witness): two requests of u1 wait for the provider, both having read
\* the counter at 1, and the stored counter is still 1
C27_Witness ==
  /\ BothReadLastAttempt(1, 2)
  /\ inflight[1].userId = "u1"
  /\ inflight[1].handler = "createVerificationSession"
  /\ inflight[2].handler = "createVerificationSession"
  /\ Row(users, "u1").verificationRetries = MAX_VERIFICATION_RETRIES - 1

\* C28: with at most MaxInFlight session-creation requests of one user in
\* flight at a time, the number of sessions accepted for a user exceeds the
\* MAX_VERIFICATION_RETRIES accepted when requests are served one after
\* another by at most MaxInFlight.
C28_OvershootBoundedByOverlap ==
  \A u \in UserIds : accepted[u] <= MAX_VERIFICATION_RETRIES + MaxInFlight

\* C29: in every reachable state the verificationRetries of a user equals the
\* number of session creations accepted with 201 for that user, also when the
\* requests of one user overlap, and the counter never decreases.
C29_CounterCountsAccepted ==
  /\ [](\A u \in UserIds :
          HasRow(users, u) => Row(users, u).verificationRetries = accepted[u])
  /\ [][\A u \in UserIds :
          (HasRow(users, u) /\ HasRow(users', u)) =>
            Row(users', u).verificationRetries >= Row(users, u).verificationRetries]_vars

\* the decision blobs a webhook can have stored
StoredBlobs == { Some(Stringify(d[1])) : d \in Decisions \ {None} }

\* C30: after an accepted status.updated webhook for a user with a row,
\* kycProvider is DIDIT and kycDetails is the serialization of the decision
\* the webhook carries; a webhook without a decision object leaves no blob of
\* an earlier webhook in kycDetails.
C30_StatusUpdateReplacesDetails ==
  secret # Missing =>
    \A p \in Payloads :
      (p.webhook_type = "status.updated" /\ HasRow(users, p.vendor_data)) =>
        LET r   == HandleWebhookResult(users, cache, now, Signed(p), NoFault)
            row == Row(r.users, p.vendor_data)
        IN /\ r.status = 200
           /\ row.kycProvider = Some("DIDIT")
           /\ IF p.decision # None
              THEN row.kycDetails = Some(Stringify(p.decision[1]))
              ELSE row.kycDetails \notin StoredBlobs

\* C31: a status.updated webhook writes idVerified only when the decision has
\* an id_verification, as (its status = Approved); phoneVerified only when the
\* decision has a phone_verification, as (its status = Approved); phoneNumber
\* only when the phone_verification carries a phone_number.  Without the
\* sub-result the field keeps its value, and a sub-result that is not Approved
\* puts a flag that was true back to false.
C31_SubResultsWriteFlags ==
  secret # Missing =>
    \A p \in TypedPayloads :
      (p.webhook_type = "status.updated" /\ HasRow(users, p.vendor_data)) =>
        LET old == Row(users, p.vendor_data)
            new == Row(HandleWebhookResult(users, cache, now, Signed(p), NoFault).users,
                       p.vendor_data)
            idv == IF p.decision = None THEN None ELSE p.decision[1].id_verification
            phv == IF p.decision = None THEN None ELSE p.decision[1].phone_verification
        IN /\ new.idVerified = IF idv = None THEN old.idVerified
                               ELSE idv[1].status = "Approved"
           /\ new.phoneVerified = IF phv = None THEN old.phoneVerified
                                  ELSE phv[1].status = "Approved"
           /\ new.phoneNumber = IF phv = None \/ phv[1].phone_number = None
                                THEN old.phoneNumber
                                ELSE phv[1].phone_number

\* C31 (witness): a webhook has set both flags and the phone number of u1, so
\* that a later webhook has flags to keep or to reset
C31_Witness ==
  /\ secret # Missing
  /\ HasRow(users, "u1")
  /\ Row(users, "u1").idVerified
  /\ Row(users, "u1").phoneVerified
  /\ Row(users, "u1").phoneNumber = Some(PhoneLong)
  /\ last.handler = "handleWebhook"

\* C32: the quotas of POST /phone/send and POST /phone/check are counted
\* independently: a client that has made phoneLimiterMax send requests in a
\* window, and no check request, is not answered 429 on a check request in
\* that window.
C32_CheckQuotaIndependentOfSend ==
  \A ip \in IPs :
    hits["phoneLimiter"][ip] = phoneLimiterMax =>
      \A body \in CheckPhoneBodies, outcome \in ProviderOutcomes :
        PostPhoneCheckStatus(ip, body, outcome) # 429

\* every row with trading enabled has kycStatus VERIFIED
TradingOnlyVerified(us) ==
  \A u \in UserIds :
    (HasRow(us, u) /\ Row(us, u).tradingEnabled) => Row(us, u).kycStatus = "VERIFIED"

\* C33: in every reachable state a user with tradingEnabled = true has
\* kycStatus = VERIFIED, and the same is true after one more signed webhook,
\* whatever it carries (for example Declined or In Review after Approved).
C33_TradingImpliesVerified ==
  /\ TradingOnlyVerified(users)
  /\ secret # Missing =>
       \A p \in Payloads :
         TradingOnlyVerified(HandleWebhookResult(users, cache, now, Signed(p), NoFault).users)

\* every row with kycStatus VERIFIED has a completion time
VerifiedHasCompletedAt(us) ==
  \A u \in UserIds :
    (HasRow(us, u) /\ Row(us, u).kycStatus = "VERIFIED") => Row(us, u).kycCompletedAt # None

\* C34: in every reachable state a user with kycStatus = VERIFIED has a
\* kycCompletedAt, and the same is true after one more webhook on either
\* endpoint, whatever it carries and whichever write fails.
C34_VerifiedHasCompletedAt ==
  /\ VerifiedHasCompletedAt(users)
  /\ secret # Missing =>
       \A f \in WebhookFaults :
         /\ \A p \in Payloads :
              VerifiedHasCompletedAt(HandleWebhookResult(users, cache, now, Signed(p), f).users)
         /\ \A p \in DiditPayloads :
              VerifiedHasCompletedAt(DiditWebhookResult(users, cache, now, Signed(p), f).users)

\* C34 (witness): a webhook has made u1 VERIFIED, with the completion time
C34_Witness ==
  /\ HasRow(users, "u1")
  /\ Row(users, "u1").kycStatus = "VERIFIED"
  /\ Row(users, "u1").kycCompletedAt # None
  /\ last.handler = "handleWebhook"

\* C35: a webhook never creates a user row.  A signed webhook whose
\* vendor_data names no existing user, or is missing, is answered 200 and
\* leaves the set of rows and every field of every row as they were; and a
\* row appears only in the create step of a session-creation request for
\* that user.
C35_WebhookCreatesNoRow ==
  /\ [](secret # Missing =>
          \A p \in Payloads :
            ~HasRow(users, p.vendor_data) =>
              LET r == HandleWebhookResult(users, cache, now, Signed(p), NoFault)
              IN r.status = 200 /\ r.users = users)
  /\ [][\A u \in UserIds :
          (~HasRow(users, u) /\ HasRow(users', u)) =>
            \E s \in Slots : /\ inflight[s].pc = "create"
                             /\ inflight[s].userId = u
                             /\ inflight'[s].pc # "create"]_vars

\* C35 (witness): the webhook handler has answered 200 while no user has a row
C35_Witness ==
  /\ last.handler = "handleWebhook"
  /\ last.status = 200
  /\ \A u \in UserIds : ~HasRow(users, u)

\* C36: when requests for one unknown user overlap, the create step of a
\* request that finds the row already made by another ends that request with
\* one error response and nothing else: no provider call, no change of the
\* user store, the cache or the number of accepted sessions.  The create
\* step that finds no row makes the row of a new user and goes on to the
\* provider with the counter read as 0.
C36_LazyCreateRace ==
  [][\A s \in Slots :
       (inflight[s].pc = "create" /\ inflight'[s] # inflight[s]) =>
         LET h == inflight[s].handler
             u == inflight[s].userId
         IN IF HasRow(users, u)
            THEN /\ inflight'[s] = Idle
                 /\ users' = users
                 /\ cache' = cache
                 /\ accepted' = accepted
                 /\ last'.handler = h
                 /\ last'.userId = u
                 /\ last'.status = 502
            ELSE /\ users' = [users EXCEPT ![u] = Some(NewUser(u))]
                 /\ inflight'[s] = [ pc |-> "provider", handler |-> h, userId |-> u,
                                     readRetries |-> 0 ]
                 /\ accepted' = accepted
                 /\ last' = last]_vars

\* C36 (witness): two requests for the unknown user u1 overlapped: one has
\* made the row and waits for the provider, the other, which also found no
\* row, is about to create it
C36_Witness ==
  /\ HasRow(users, "u1")
  /\ \E s1, s2 \in Slots :
       /\ inflight[s1].pc = "provider"
       /\ inflight[s1].userId = "u1"
       /\ inflight[s2].pc = "create"
       /\ inflight[s2].userId = "u1"

\* the fields of a row that a verification result writes
WebhookFields(row) ==
  << row.kycStatus, row.kycCompletedAt, row.idVerified, row.phoneVerified,
     row.phoneNumber, row.kycDetails, row.tradingEnabled >>

\* status.updated callbacks for user u1 that write a status, with and
\* without a decision
StatusUpdates ==
  { Payload("s1", st, "u1", "status.updated", dec, None) :
      st \in {"Approved", "Declined", "In Review"}, dec \in {None, Some(DecisionFull)} }

\* C37: the row write of session creation touches only verificationRetries
\* and lastVerificationAttempt.  For a request that has read the row and
\* waits for the provider, and a signed webhook for the same user applied
\* before the request's write, the row after the accepted request has the
\* webhook's kycStatus, kycCompletedAt, idVerified, phoneVerified,
\* phoneNumber, kycDetails and tradingEnabled, the counter read plus one and
\* the time of the attempt.
C37_SessionWriteKeepsWebhookFields ==
  \A s \in Slots :
    (inflight[s].pc = "provider" /\ secret # Missing) =>
      \A p \in StatusUpdates :
        p.vendor_data = inflight[s].userId =>
          LET u   == inflight[s].userId
              w   == HandleWebhookResult(users, cache, now, Signed(p), NoFault)
              r   == SessionProviderResult(w.users, w.cache, now, inflight[s], 201, "s1",
                                           TRUE, TRUE)
              mid == Row(w.users, u)
              new == Row(r.users, u)
          IN /\ r.accepted
             /\ WebhookFields(new) = WebhookFields(mid)
             /\ new = [mid EXCEPT !.verificationRetries = inflight[s].readRetries + 1,
                                  !.lastVerificationAttempt = Some(now)]

\* C37 (witness): a request of u1 that read the row before the verification
\* result waits for the provider while a webhook has made u1 VERIFIED with
\* trading enabled
C37_Witness ==
  /\ \E s \in Slots : inflight[s].pc = "provider" /\ inflight[s].userId = "u1"
  /\ HasRow(users, "u1")
  /\ Row(users, "u1").kycStatus = "VERIFIED"
  /\ Row(users, "u1").tradingEnabled
  /\ last.handler = "handleWebhook"

\* sendPhone has run its try block: the route answered 200
SendPhoneSucceeded ==
  /\ ui.call.fn = "sendPhoneCode"
  /\ ui'.call = NoCall
  /\ last'.handler = "sendPhoneVerificationCode"
  /\ last'.status = 200

\* checkPhone has posted its request and the handler has answered it
CheckPhoneAnswered ==
  /\ ui.call.fn = "checkPhoneCode"
  /\ ui'.call = NoCall
  /\ last'.handler = "checkPhoneVerificationCode"

\* C38: the bundled client drives the phone flow to completion.  After a
\* successful sendPhone the requestId of the UI is the request_id the backend
\* returned; a checkPhone request posted by VerificationAPI.checkPhoneCode
\* with a code reaches the provider check call and is not answered 400; and
\* whenever no UI action is under way the busy flag is false.
C38_ClientCompletesPhoneFlow ==
  /\ [](ui.call = NoCall => ~ui.busy)
  /\ [][/\ SendPhoneSucceeded => ui'.requestId = last'.data[1].request_id
        /\ CheckPhoneAnswered => (last'.called /\ last'.status # 400)]_vars

====
